---- MODULE Spec2Model ----
(***************************************************************************)
(* Model of the query_processing crate: the relational operators of        *)
(* src/src/graph_patterns.rs and the expression compiler of                *)
(* src/src/expressions.rs, acting on SolutionMappings (a lazy frame plus   *)
(* the map rdf_node_types from column name to RDFNodeType).                *)
(*                                                                         *)
(* A frame is modelled by the result its plan evaluates to: a sequence of  *)
(* column names and a sequence of rows.  A plan that names a column the    *)
(* frame does not have cannot be collected; such a frame is marked bad.    *)
(***************************************************************************)
EXTENDS Integers, Sequences, FiniteSets, TLC

\* ---------------------------------------------------------------- bounds
MaxVal == 2
MaxInRows == 3
MaxRows == 4
MaxSteps == 2
MaxInterval == 3

\* ------------------------------------------------------------ base types
\* BaseRDFNodeType, by its canonical sort key (IRI < BlankNode < literals,
\* literals by datatype IRI: xsd:boolean < xsd:integer < xsd:string).
IRI == 1
BlankNode == 2
XsdBoolean == 3
XsdInteger == 4
XsdString == 5
\* further literal datatypes the expression compiler records; they are
\* named here only, none of them occurs in a MultiType
XsdDouble == 6
XsdInt == 7
XsdLong == 8
XsdUnsignedInt == 9
XsdDateTime == 10
XsdByte == 11
XsdShort == 12
XsdUnsignedLong == 13
XsdUnsignedByte == 14
XsdUnsignedShort == 15

BaseTypes == {IRI, BlankNode, XsdBoolean, XsdInteger, XsdString}

\* the name a base type contributes to a sub-column name
non_multi_type_string(b) ==
    CASE b = IRI -> "_iri"
      [] b = BlankNode -> "_blank"
      [] b = XsdBoolean -> "_bool"
      [] b = XsdInteger -> "_int"
      [] OTHER -> "_str"

\* RDFNodeType: a single base type, or MultiType(vec of base types)
Single(b) == [multi |-> FALSE, ts |-> <<b>>]
MultiType(ts) == [multi |-> TRUE, ts |-> ts]
from_rdf_node_type(t) == t.ts[1]

\* is_string_col: the column is physically a string column
is_string_col(t) == ~t.multi /\ t.ts[1] \in {IRI, BlankNode, XsdString}

\* physical dtype of a column of the given type
Dtype(t) ==
    IF t.multi THEN <<"struct", t.ts>>
    ELSE IF is_string_col(t) THEN <<"str", <<>>>>
    ELSE IF t.ts[1] = XsdBoolean THEN <<"bool", <<>>>>
    ELSE IF t.ts[1] = XsdDouble THEN <<"f64", <<>>>>
    ELSE IF t.ts[1] = XsdDateTime THEN <<"datetime", <<>>>>
    ELSE <<"i64", <<>>>>

\* ------------------------------------------------------ small utilities
SeqToSet(s) == {s[i] : i \in DOMAIN s}

Min(S) == CHOOSE m \in S : \A n \in S : m <= n

RECURSIVE SortedSeq(_)
\* the elements of a finite set of integers in increasing order (Vec::sort
\* after collecting a HashSet)
SortedSeq(S) ==
    IF S = {} THEN <<>> ELSE <<Min(S)>> \o SortedSeq(S \ {Min(S)})

RECURSIVE Flatten(_)
Flatten(ss) == IF ss = <<>> THEN <<>> ELSE Head(ss) \o Flatten(Tail(ss))

\* all enumerations of a finite set without repetition (the possible
\* iteration orders of a HashMap's keys / the row orders of an unstable step)
RECURSIVE Orders(_)
Orders(S) ==
    IF S = {} THEN {<<>>}
    ELSE UNION {{<<e>> \o o : o \in Orders(S \ {e})} : e \in S}

\* the column names of the model in lexicographic order (Vec<String>::sort)
NameOrder == <<"c1", "c2", "ec", "n", "u1", "u2", "x", "y", "z">>
SortedNames(S) == SelectSeq(NameOrder, LAMBDA n : n \in S)

EmptyMap == [k \in {} |-> 0]
MapPut(f, k, v) == [x \in DOMAIN f \cup {k} |-> IF x = k THEN v ELSE f[x]]
MapRemove(f, k) == [x \in DOMAIN f \ {k} |-> f[x]]

\* ----------------------------------------------------------------- cells
\* A cell is [t, v]: v = 0 is null; t = 0 is a plain value, whose RDF type
\* only the type map knows; t > 0 is a value inside a multi-type struct,
\* tagged with the base type of the field that holds it.
Null == [t |-> 0, v |-> 0]
Plain(n) == [t |-> 0, v |-> n]
Tagged(b, n) == [t |-> b, v |-> n]
IsNull(c) == c.v = 0
FalseV == 1
TrueV == 2
BoolCell(b) == IF b THEN Plain(TrueV) ELSE Plain(FalseV)
\* The value v > 0 of a plain cell stands for the number v - 1 (false and
\* true are 0 and 1), for a string column for the string of v - 1
\* letters "a"; v < 0 stands for the negative number v.
IntCode(n) == IF n >= 0 THEN n + 1 ELSE n
IntOf(v) == IF v > 0 THEN v - 1 ELSE v

\* ------------------------------------------------------------- relations
\* SolutionMappings { mappings, rdf_node_types }
SolutionMappings(cols, rows, types) ==
    [cols |-> cols, rows |-> rows, types |-> types, bad |-> FALSE]

ColSet(sm) == SeqToSet(sm.cols)
Keys(sm) == DOMAIN sm.types
NRows(sm) == Len(sm.rows)
Column(sm, c) == [i \in DOMAIN sm.rows |-> sm.rows[i][c]]

\* a plan that names a column missing from the frame's schema
Broken(sm, types) == [sm EXCEPT !.types = types, !.bad = TRUE]

\* ------------------------------------------- the frame operations used
\* LazyFrame::with_column(expr.alias(name)): a column of that name is
\* replaced in place, a new one is appended
with_column(sm, name, cells) ==
    [sm EXCEPT
       !.cols = IF name \in ColSet(sm) THEN sm.cols ELSE Append(sm.cols, name),
       !.rows = [i \in DOMAIN sm.rows |->
                   [c \in ColSet(sm) \cup {name} |->
                      IF c = name THEN cells[i] ELSE sm.rows[i][c]]]]

\* LazyFrame::drop: the named columns that exist are removed
drop(sm, names) ==
    [sm EXCEPT
       !.cols = SelectSeq(sm.cols, LAMBDA c : c \notin names),
       !.rows = [i \in DOMAIN sm.rows |->
                   [c \in ColSet(sm) \ names |-> sm.rows[i][c]]]]

\* LazyFrame::rename([old], [new]), old a column and new not one
rename(sm, old, new) ==
    [sm EXCEPT
       !.cols = [i \in DOMAIN sm.cols |->
                   IF sm.cols[i] = old THEN new ELSE sm.cols[i]],
       !.rows = [i \in DOMAIN sm.rows |->
                   [c \in (ColSet(sm) \ {old}) \cup {new} |->
                      IF c = new THEN sm.rows[i][old] ELSE sm.rows[i][c]]]]

\* the rows of a sequence that pass a test, in order
RECURSIVE KeepRows(_, _)
KeepRows(rows, keep) ==
    IF rows = <<>> THEN <<>>
    ELSE (IF keep[1] THEN <<Head(rows)>> ELSE <<>>)
         \o KeepRows(Tail(rows), [i \in 1..(Len(rows) - 1) |-> keep[i + 1]])

\* LazyFrame::filter(col(c)): rows whose predicate cell is true (a null
\* predicate drops the row)
filter_rows(sm, c) ==
    [sm EXCEPT !.rows =
       KeepRows(sm.rows, [i \in DOMAIN sm.rows |-> sm.rows[i][c] = Plain(TrueV)])]

\* LazyFrame::unique_stable(None, First): the first occurrence of each row
unique_stable(rows) ==
    KeepRows(rows, [i \in DOMAIN rows |-> \A j \in 1..(i - 1) : rows[j] # rows[i]])

\* LazyFrame::select of columns the frame has, in the order requested
select(sm, names) ==
    [sm EXCEPT
       !.cols = names,
       !.rows = [i \in DOMAIN sm.rows |->
                   [c \in SeqToSet(names) |-> sm.rows[i][c]]]]

\* columns of the right side that a join or concatenation adds
NewCols(l, r) == SelectSeq(r.cols, LAMBDA c : c \notin ColSet(l))

\* a left row extended by the new columns of a right row
Glue(l, r, lrow, rrow) ==
    [c \in ColSet(l) \cup ColSet(r) |->
       IF c \in ColSet(l) THEN lrow[c] ELSE rrow[c]]

\* a left row with the right side's new columns null
NullFill(l, r, lrow) ==
    [c \in ColSet(l) \cup ColSet(r) |->
       IF c \in ColSet(l) THEN lrow[c] ELSE Null]

\* JoinType::Cross: every pair, left-major
cross_join(l, r) ==
    [l EXCEPT
       !.cols = l.cols \o NewCols(l, r),
       !.rows = Flatten([i \in DOMAIN l.rows |->
                   [j \in DOMAIN r.rows |-> Glue(l, r, l.rows[i], r.rows[j])]])]

\* concat_lf_diagonal: the rows of both, columns absent on a side null
concat_lf_diagonal(l, r) ==
    [l EXCEPT
       !.cols = l.cols \o NewCols(l, r),
       !.rows = [i \in DOMAIN l.rows |-> NullFill(l, r, l.rows[i])]
                \o [j \in DOMAIN r.rows |->
                      [c \in ColSet(l) \cup ColSet(r) |->
                         IF c \in ColSet(r) THEN r.rows[j][c] ELSE Null]]]

\* key equality of a join: nulls never match (join_nulls is off)
KeysMatch(lrow, rrow, on) ==
    \A c \in on : ~IsNull(lrow[c]) /\ lrow[c] = rrow[c]

\* JoinType::Anti: the left rows no right row matches, in left order
anti_join(l, r, on) ==
    [l EXCEPT !.rows =
       KeepRows(l.rows, [i \in DOMAIN l.rows |->
          ~\E j \in DOMAIN r.rows : KeysMatch(l.rows[i], r.rows[j], on)])]

\* ------------------------------------------------------------- sorting
\* the sort key of a cell of column c: a column cast to Categorical with
\* physical ordering sorts by dictionary code, the order of first
\* appearance, any other column by value
FirstAt(rows, c, cell) == Min({i \in DOMAIN rows : rows[i][c] = cell})
SortKey(rows, c, cell, categorical) ==
    IF categorical THEN <<0, FirstAt(rows, c, cell)>> ELSE <<cell.t, cell.v>>

KeyLess(a, b) == a[1] < b[1] \/ (a[1] = b[1] /\ a[2] < b[2])

\* cell x sorts strictly before cell y in one sort column
CellBefore(rows, c, x, y, categorical, descending, nulls_last) ==
    IF IsNull(x) \/ IsNull(y)
    THEN IF IsNull(x) /\ IsNull(y) THEN FALSE
         ELSE IF nulls_last THEN IsNull(y) ELSE IsNull(x)
    ELSE IF descending
         THEN KeyLess(SortKey(rows, c, y, categorical), SortKey(rows, c, x, categorical))
         ELSE KeyLess(SortKey(rows, c, x, categorical), SortKey(rows, c, y, categorical))

\* row a sorts strictly before row b, lexicographically over the sort
\* columns by; cat, desc: per-column flags
RECURSIVE RowBefore(_, _, _, _, _, _, _)
RowBefore(rows, a, b, by, cat, desc, nulls_last) ==
    IF by = <<>> THEN FALSE
    ELSE LET c == Head(by) IN
         \/ CellBefore(rows, c, a[c], b[c], cat[1], desc[1], nulls_last)
         \/ /\ ~CellBefore(rows, c, b[c], a[c], cat[1], desc[1], nulls_last)
            /\ RowBefore(rows, a, b, Tail(by), Tail(cat), Tail(desc), nulls_last)

\* LazyFrame::sort_by_exprs(by, descending, nulls_last, maintain_order =
\* false): every order of the rows that is sorted; rows that tie may come
\* in any order
sort_by_exprs(rows, by, cat, desc, nulls_last) ==
    {[i \in DOMAIN rows |-> rows[p[i]]] : p \in
       {q \in Orders(DOMAIN rows) :
          \A i \in 1..(Len(rows) - 1) :
             ~RowBefore(rows, rows[q[i + 1]], rows[q[i]], by, cat, desc, nulls_last)}}

\* ------------------------------------------------------------ outcomes
\* what a call returns: Ok(SolutionMappings), Err(..) or a panic.  An
\* operator yields the set of outcomes the call can have.
Ok(sm) == [res |-> "Ok", sm |-> sm]
Err(e, sm) == [res |-> e, sm |-> sm]
Panic(sm) == [res |-> "Panic", sm |-> sm]

\* ------------------------------------------- src/src/graph_patterns.rs
distinct(sm) == {Ok([sm EXCEPT !.rows = unique_stable(sm.rows)])}

extend(sm, expression_context, variable) ==
    IF expression_context \notin Keys(sm) THEN {Panic(sm)}
    ELSE LET types == MapPut(MapRemove(sm.types, expression_context),
                             variable, sm.types[expression_context])
         IN IF expression_context \notin ColSet(sm) \/ variable \in ColSet(sm)
            THEN {Ok(Broken(sm, types))}
            ELSE {Ok([rename(sm, expression_context, variable)
                        EXCEPT !.types = types])}

filter(sm, expression_context) ==
    IF expression_context \notin ColSet(sm) THEN {Ok(Broken(sm, sm.types))}
    ELSE {Ok(drop(filter_rows(sm, expression_context), {expression_context}))}

\* prepare_group_by with the uuid that Uuid::new_v4 draws; returns the
\* relation, the grouping columns and the dummy name ("" for None)
prepare_group_by(sm, variables, uuid) ==
    IF variables = <<>>
    THEN [sm |-> with_column(sm, uuid, [i \in DOMAIN sm.rows |-> Plain(TrueV)]),
          by |-> <<uuid>>, dummy_varname |-> uuid]
    ELSE [sm |-> sm, by |-> variables, dummy_varname |-> ""]

\* an aggregate expression col(of).count().alias(name): the number of
\* non-null cells of the column in the group
Aggregate(rows, agg) ==
    Plain(IntCode(Cardinality({i \in DOMAIN rows : ~IsNull(rows[i][agg.of])})))

\* the groups of LazyFrame::group_by(by): the distinct keys
GroupKeys(sm, by) ==
    {[c \in SeqToSet(by) |-> sm.rows[i][c]] : i \in DOMAIN sm.rows}

GroupRows(sm, by, key) ==
    KeepRows(sm.rows, [i \in DOMAIN sm.rows |->
                         [c \in SeqToSet(by) |-> sm.rows[i][c]] = key])

\* lines 81-87: the grouped and aggregated relation, with the new types
Grouped(sm, aggregate_expressions, by, new_rdf_node_types) ==
    LET datatypes == [k \in Keys(sm) \cup DOMAIN new_rdf_node_types |->
                        IF k \in DOMAIN new_rdf_node_types
                        THEN new_rdf_node_types[k] ELSE sm.types[k]]
        outs == [i \in DOMAIN aggregate_expressions |-> aggregate_expressions[i].name]
        cols == by \o outs
        refs == SeqToSet(by)
                \cup {aggregate_expressions[i].of : i \in DOMAIN aggregate_expressions}
        RowOf(key) ==
            [c \in SeqToSet(cols) |->
               IF c \in SeqToSet(by) THEN key[c]
               ELSE LET a == CHOOSE i \in DOMAIN outs : outs[i] = c
                    IN Aggregate(GroupRows(sm, by, key), aggregate_expressions[a])]
    IN IF ~(refs \subseteq ColSet(sm)) \/ SeqToSet(outs) \cap SeqToSet(by) # {}
       THEN {Broken(sm, datatypes)}
       ELSE {[sm EXCEPT !.cols = cols,
                        !.rows = [i \in DOMAIN o |-> RowOf(o[i])],
                        !.types = datatypes]
               : o \in Orders(GroupKeys(sm, by))}

\* group_by that leaves the dummy column in
group_by_keep_dummy(sm, aggregate_expressions, by, dummy_varname, new_rdf_node_types) ==
    {Ok(g) : g \in Grouped(sm, aggregate_expressions, by, new_rdf_node_types)}

\* lines 72-93
group_by(sm, aggregate_expressions, by, dummy_varname, new_rdf_node_types) ==
    {Ok(IF g.bad \/ dummy_varname = "" THEN g ELSE drop(g, {dummy_varname}))
       : g \in Grouped(sm, aggregate_expressions, by, new_rdf_node_types)}

\* the logical RDF term of a cell of a column of the given type
Term(cell, type) ==
    IF IsNull(cell) THEN Null
    ELSE IF cell.t = 0 THEN Tagged(from_rdf_node_type(type), cell.v)
    ELSE cell

\* create_join_compatible_solution_mappings: shared columns are made
\* comparable per concrete type; the type maps come back as they were
create_join_compatible_solution_mappings(l, r, inner) == <<l, r>>

TermsMatch(l, r, lrow, rrow, on) ==
    \A c \in on : /\ ~IsNull(lrow[c])
                  /\ Term(lrow[c], l.types[c]) = Term(rrow[c], r.types[c])

\* join_workaround: the inner or left join on the columns both type maps
\* name, equality taken per concrete type
join_workaround(l, r, how) ==
    LET on == Keys(l) \cap Keys(r)
        Matches(i) == KeepRows(r.rows, [j \in DOMAIN r.rows |->
                         TermsMatch(l, r, l.rows[i], r.rows[j], on)])
    IN [l EXCEPT
          !.cols = l.cols \o NewCols(l, r),
          !.rows = Flatten([i \in DOMAIN l.rows |->
                      IF Matches(i) = <<>> /\ how = "Left"
                      THEN <<NullFill(l, r, l.rows[i])>>
                      ELSE [j \in DOMAIN Matches(i) |->
                              Glue(l, r, l.rows[i], Matches(i)[j])]])]

\* MergeTypes with a shared key decided for the right side
MergeTypes_right_wins(left_datatypes, right_datatypes) ==
    [k \in DOMAIN left_datatypes \cup DOMAIN right_datatypes |->
       IF k \in DOMAIN right_datatypes THEN right_datatypes[k] ELSE left_datatypes[k]]

\* lines 158-162 and 234-238: the right side's types fill the gaps
MergeTypes(left_datatypes, right_datatypes) ==
    [k \in DOMAIN left_datatypes \cup DOMAIN right_datatypes |->
       IF k \in DOMAIN left_datatypes THEN left_datatypes[k] ELSE right_datatypes[k]]

\* join without the cross join: with no shared column the left side's
\* rows come back
join_no_cross(left_solution_mappings, right_solution_mappings) ==
    LET join_on == Keys(left_solution_mappings) \cap Keys(right_solution_mappings)
        compat == create_join_compatible_solution_mappings(
                      left_solution_mappings, right_solution_mappings, TRUE)
        l == compat[1]
        r == compat[2]
        types == MergeTypes(l.types, r.types)
    IN IF ~(join_on \subseteq ColSet(l)) \/ ~(join_on \subseteq ColSet(r))
       THEN {Ok(Broken(l, types))}
       ELSE IF join_on = {}
       THEN {Ok([l EXCEPT !.types = types])}
       ELSE {Ok([join_workaround(l, r, "Inner") EXCEPT !.types = types])}

join(left_solution_mappings, right_solution_mappings) ==
    LET join_on == Keys(left_solution_mappings) \cap Keys(right_solution_mappings)
        compat == create_join_compatible_solution_mappings(
                      left_solution_mappings, right_solution_mappings, TRUE)
        l == compat[1]
        r == compat[2]
        types == MergeTypes(l.types, r.types)
    IN IF ~(join_on \subseteq ColSet(l)) \/ ~(join_on \subseteq ColSet(r))
       THEN {Ok(Broken(l, types))}
       ELSE IF join_on = {}
       THEN {Ok([cross_join(l, r) EXCEPT !.types = types])}
       ELSE {Ok([join_workaround(l, r, "Inner") EXCEPT !.types = types])}

left_join(left_solution_mappings, right_solution_mappings) ==
    LET join_on == Keys(left_solution_mappings) \cap Keys(right_solution_mappings)
        compat == create_join_compatible_solution_mappings(
                      left_solution_mappings, right_solution_mappings, FALSE)
        l == compat[1]
        r == compat[2]
        types == MergeTypes(l.types, r.types)
    IN IF ~(join_on \subseteq ColSet(l)) \/ ~(join_on \subseteq ColSet(r))
       THEN {Ok(Broken(l, types))}
       ELSE IF join_on = {}
       THEN {Ok([cross_join(l, r) EXCEPT !.types = types])}
       ELSE {Ok([join_workaround(l, r, "Left") EXCEPT !.types = types])}

\* minus without the early return for an empty set of shared columns
minus_no_early_return(left_solution_mappings, right_solution_mappings) ==
    LET l == left_solution_mappings
        r == right_solution_mappings
        join_on == Keys(l) \cap Keys(r)
        join_on_cols == SortedNames(join_on)
        cat == [i \in DOMAIN join_on_cols |-> is_string_col(l.types[join_on_cols[i]])]
        all_false == [i \in DOMAIN join_on_cols |-> FALSE]
    IN IF \/ ~(join_on \subseteq ColSet(l))
          \/ ~(join_on \subseteq ColSet(r))
          \/ \E c \in join_on : Dtype(l.types[c]) # Dtype(r.types[c])
       THEN {Ok(Broken(l, l.types))}
       ELSE {Ok(anti_join([l EXCEPT !.rows = ls], [r EXCEPT !.rows = rs], join_on))
               : ls \in sort_by_exprs(l.rows, join_on_cols, cat, all_false, FALSE),
                 rs \in sort_by_exprs(r.rows, join_on_cols, cat, all_false, FALSE)}

\* minus whose anti join is on the first shared column alone
minus_first_key(left_solution_mappings, right_solution_mappings) ==
    LET l == left_solution_mappings
        r == right_solution_mappings
        join_on == Keys(l) \cap Keys(r)
        join_on_cols == SortedNames(join_on)
        cat == [i \in DOMAIN join_on_cols |-> is_string_col(l.types[join_on_cols[i]])]
        all_false == [i \in DOMAIN join_on_cols |-> FALSE]
    IN IF join_on = {} THEN {Ok(l)}
       ELSE IF \/ ~(join_on \subseteq ColSet(l))
               \/ ~(join_on \subseteq ColSet(r))
               \/ \E c \in join_on : Dtype(l.types[c]) # Dtype(r.types[c])
       THEN {Ok(Broken(l, l.types))}
       ELSE {Ok(anti_join([l EXCEPT !.rows = ls], [r EXCEPT !.rows = rs],
                          {join_on_cols[1]}))
               : ls \in sort_by_exprs(l.rows, join_on_cols, cat, all_false, FALSE),
                 rs \in sort_by_exprs(r.rows, join_on_cols, cat, all_false, FALSE)}

minus(left_solution_mappings, right_solution_mappings) ==
    LET l == left_solution_mappings
        r == right_solution_mappings
        join_on == Keys(l) \cap Keys(r)
        join_on_cols == SortedNames(join_on)
        cat == [i \in DOMAIN join_on_cols |-> is_string_col(l.types[join_on_cols[i]])]
        all_false == [i \in DOMAIN join_on_cols |-> FALSE]
    IN IF join_on = {} THEN {Ok(l)}
       ELSE IF \/ ~(join_on \subseteq ColSet(l))
               \/ ~(join_on \subseteq ColSet(r))
               \/ \E c \in join_on : Dtype(l.types[c]) # Dtype(r.types[c])
       THEN {Ok(Broken(l, l.types))}
       ELSE {Ok(anti_join([l EXCEPT !.rows = ls], [r EXCEPT !.rows = rs], join_on))
               : ls \in sort_by_exprs(l.rows, join_on_cols, cat, all_false, FALSE),
                 rs \in sort_by_exprs(r.rows, join_on_cols, cat, all_false, FALSE)}

\* order_by that hands the ascending flags on as the descending flags
order_by_flags_as_given(sm, inner_contexts, asc_ordering) ==
    IF ~(SeqToSet(inner_contexts) \subseteq ColSet(sm))
          \/ Len(inner_contexts) # Len(asc_ordering)
    THEN {Ok(Broken(sm, sm.types))}
    ELSE {Ok(drop([sm EXCEPT !.rows = rows], SeqToSet(inner_contexts)))
            : rows \in sort_by_exprs(sm.rows, inner_contexts,
                          [i \in DOMAIN inner_contexts |-> FALSE], asc_ordering, TRUE)}

\* lines 305-332
order_by(sm, inner_contexts, asc_ordering) ==
    IF ~(SeqToSet(inner_contexts) \subseteq ColSet(sm))
          \/ Len(inner_contexts) # Len(asc_ordering)
    THEN {Ok(Broken(sm, sm.types))}
    ELSE {Ok(drop([sm EXCEPT !.rows = rows], SeqToSet(inner_contexts)))
            : rows \in sort_by_exprs(sm.rows, inner_contexts,
                          [i \in DOMAIN inner_contexts |-> FALSE],
                          [i \in DOMAIN asc_ordering |-> ~asc_ordering[i]], TRUE)}

\* project that leaves the columns in the order the relation has them
project_frame_order(sm, variables) ==
    LET new_datatypes == [v \in SeqToSet(variables) \cap Keys(sm) |-> sm.types[v]]
    IN IF ~(SeqToSet(variables) \subseteq ColSet(sm))
       THEN {Ok(Broken(sm, new_datatypes))}
       ELSE {Ok([select(sm, SelectSeq(sm.cols, LAMBDA c : c \in SeqToSet(variables)))
                   EXCEPT !.types = new_datatypes])}

\* lines 334-356
project(sm, variables) ==
    LET new_datatypes == [v \in SeqToSet(variables) \cap Keys(sm) |-> sm.types[v]]
    IN IF ~(SeqToSet(variables) \subseteq ColSet(sm))
       THEN {Ok(Broken(sm, new_datatypes))}
       ELSE {Ok([select(sm, variables) EXCEPT !.types = new_datatypes])}

\* ---------------------------------------------- multi-type reconciliation
\* convert_lf_col_to_multitype: the plain column becomes a struct column
\* with the one field of its base type
convert_lf_col_to_multitype(sm, c, type) ==
    with_column(sm, c, [i \in DOMAIN sm.rows |-> Term(sm.rows[i][c], type)])

\* the sub-column names of column c for the base types ts
SubCols(c, ts) == [j \in DOMAIN ts |-> c \o non_multi_type_string(ts[j])]

\* one column exploded: a sub-column per base type, holding the value
\* where the row's concrete type is that type and null elsewhere
ExplodeCol(sm, c, ts) ==
    LET subs == SubCols(c, ts)
        rest == (ColSet(sm) \ {c}) \ SeqToSet(subs)
    IN [sm EXCEPT
          !.cols = SelectSeq(sm.cols, LAMBDA n : n \in rest) \o subs,
          !.rows = [i \in DOMAIN sm.rows |->
                      [n \in rest \cup SeqToSet(subs) |->
                         IF n \in rest THEN sm.rows[i][n]
                         ELSE LET j == CHOOSE j \in DOMAIN subs : subs[j] = n
                                  cell == sm.rows[i][c]
                              IN IF ~IsNull(cell) /\ cell.t = ts[j]
                                 THEN Plain(cell.v) ELSE Null]]]

\* explode_multicols, the columns taken in the map's iteration order
RECURSIVE explode_multicols(_, _, _)
explode_multicols(sm, multitypes, order) ==
    IF order = <<>> THEN sm
    ELSE explode_multicols(ExplodeCol(sm, Head(order), multitypes[Head(order)].ts),
                           multitypes, Tail(order))

\* the map explode_multicols returns: column -> (inner, prefixed) lists
ExplodedMap(multitypes) ==
    [c \in DOMAIN multitypes |->
       [inner |-> multitypes[c].ts, prefixed |-> SubCols(c, multitypes[c].ts)]]

\* one column imploded: the struct of its sub-columns
ImplodeCol(sm, c, lists) ==
    LET Cell(i) ==
          LET set == {j \in DOMAIN lists.prefixed :
                        ~IsNull(sm.rows[i][lists.prefixed[j]])}
          IN IF set = {} THEN Null
             ELSE Tagged(lists.inner[Min(set)],
                         sm.rows[i][lists.prefixed[Min(set)]].v)
    IN with_column(sm, c, [i \in DOMAIN sm.rows |-> Cell(i)])

RECURSIVE ImplodeAll(_, _, _)
ImplodeAll(sm, map, order) ==
    IF order = <<>> THEN sm
    ELSE ImplodeAll(ImplodeCol(sm, Head(order), map[Head(order)]), map, Tail(order))

\* implode_multicolumns, the columns taken in the map's iteration order
implode_multicolumns(sm, map, order) ==
    IF \E c \in DOMAIN map : ~(SeqToSet(map[c].prefixed) \subseteq ColSet(sm))
    THEN Broken(sm, sm.types)
    ELSE drop(ImplodeAll(sm, map, order),
              UNION {SeqToSet(map[c].prefixed) : c \in DOMAIN map})

\* ------------------------------------------------------------------ union
\* lines 370-423: the reconciled type of every column both sides have with
\* different types
SortedPair(a, b) == IF a <= b THEN <<a, b>> ELSE <<b, a>>

\* updated_types that makes a MultiType of the left side's base types alone
updated_types_left_base(left_datatypes, right_datatypes) ==
    [c \in {k \in DOMAIN left_datatypes \cap DOMAIN right_datatypes :
              left_datatypes[k] # right_datatypes[k]} |->
       MultiType(left_datatypes[c].ts)]

\* updated_types that appends the right side's new base types to the left
\* side's without sorting
updated_types_unsorted(left_datatypes, right_datatypes) ==
    [c \in {k \in DOMAIN left_datatypes \cap DOMAIN right_datatypes :
              left_datatypes[k] # right_datatypes[k]} |->
       MultiType(left_datatypes[c].ts
                 \o SelectSeq(right_datatypes[c].ts,
                              LAMBDA b : b \notin SeqToSet(left_datatypes[c].ts)))]

updated_types(left_datatypes, right_datatypes) ==
    [c \in {k \in DOMAIN left_datatypes \cap DOMAIN right_datatypes :
              left_datatypes[k] # right_datatypes[k]} |->
       LET left_type == left_datatypes[c]
           right_type == right_datatypes[c]
       IN IF left_type.multi
          THEN IF right_type.multi
               THEN MultiType(SortedSeq(SeqToSet(left_type.ts) \cup SeqToSet(right_type.ts)))
               ELSE MultiType(SortedSeq(SeqToSet(left_type.ts)
                                        \cup {from_rdf_node_type(right_type)}))
          ELSE IF right_type.multi
               THEN MultiType(SortedSeq(SeqToSet(right_type.ts)
                                        \cup {from_rdf_node_type(left_type)}))
               ELSE MultiType(SortedPair(from_rdf_node_type(left_type),
                                         from_rdf_node_type(right_type)))]

\* the columns of one side that are exploded, with the multi-type each has
\* on that side: the plain columns converted at lines 389-416 and the
\* side's own multi-type columns (lines 424-434)
new_multitypes(own, other) ==
    [c \in {k \in DOMAIN own : own[k].multi \/
              (k \in DOMAIN other /\ own[k] # other[k])} |->
       IF own[c].multi THEN own[c]
       ELSE MultiType(<<from_rdf_node_type(own[c])>>)]

\* the plain columns of one side converted to multi-type (lines 389-413)
RECURSIVE ConvertCols(_, _, _)
ConvertCols(sm, cs, types) ==
    IF cs = {} THEN sm
    ELSE LET c == CHOOSE c \in cs : TRUE
         IN ConvertCols(convert_lf_col_to_multitype(sm, c, types[c]), cs \ {c}, types)

\* MergeExploded that leaves the left side's lists as they are
MergeExploded_left_only(left_exploded_map, right_exploded_map) == left_exploded_map

\* lines 438-447: the right side's sub-columns the left side lacks are
\* added to the left side's lists
MergeExploded(left_exploded_map, right_exploded_map) ==
    [c \in DOMAIN left_exploded_map |->
       IF c \notin DOMAIN right_exploded_map THEN left_exploded_map[c]
       ELSE LET li == left_exploded_map[c].inner
                ri == right_exploded_map[c].inner
                idx == SelectSeq([j \in DOMAIN ri |-> j],
                                 LAMBDA j : ri[j] \notin SeqToSet(li))
            IN [inner |-> li \o [k \in DOMAIN idx |-> ri[idx[k]]],
                prefixed |-> left_exploded_map[c].prefixed
                             \o [k \in DOMAIN idx |->
                                   right_exploded_map[c].prefixed[idx[k]]]]]

\* lines 453-462
out_map(left_datatypes, right_datatypes, updated) ==
    [k \in DOMAIN left_datatypes \cup DOMAIN right_datatypes |->
       IF k \in DOMAIN updated THEN updated[k]
       ELSE IF k \in DOMAIN left_datatypes THEN left_datatypes[k]
       ELSE right_datatypes[k]]

union(left_solution_mappings, right_solution_mappings) ==
    LET l == left_solution_mappings
        r == right_solution_mappings
        updated == updated_types(l.types, r.types)
        left_new_multitypes == new_multitypes(l.types, r.types)
        right_new_multitypes == new_multitypes(r.types, l.types)
        types == out_map(l.types, r.types, updated)
        lconv == ConvertCols(l, {c \in DOMAIN updated : ~l.types[c].multi}, l.types)
        rconv == ConvertCols(r, {c \in DOMAIN updated : ~r.types[c].multi}, r.types)
        left_exploded_map == MergeExploded(ExplodedMap(left_new_multitypes),
                                           ExplodedMap(right_new_multitypes))
    IN IF \/ ~(DOMAIN left_new_multitypes \subseteq ColSet(l))
          \/ ~(DOMAIN right_new_multitypes \subseteq ColSet(r))
       THEN {Ok(Broken(l, types))}
       ELSE {Ok([implode_multicolumns(
                    concat_lf_diagonal(
                        explode_multicols(lconv, left_new_multitypes, lo),
                        explode_multicols(rconv, right_new_multitypes, ro)),
                    left_exploded_map, io)
                 EXCEPT !.types = types])
               : lo \in Orders(DOMAIN left_new_multitypes),
                 ro \in Orders(DOMAIN right_new_multitypes),
                 io \in Orders(DOMAIN left_exploded_map)}

\* --------------------------------------------- src/src/expressions.rs
\* drop_inner_contexts that leaves the type entries
drop_inner_contexts_columns(sm, contexts) == drop(sm, contexts)

\* lines 694-703
drop_inner_contexts(sm, contexts) ==
    [drop(sm, contexts) EXCEPT !.types = [k \in Keys(sm) \ contexts |-> sm.types[k]]]

named_node(sm, nn, context) ==
    {Ok([with_column(sm, context, [i \in DOMAIN sm.rows |-> Plain(nn)])
           EXCEPT !.types = MapPut(sm.types, context, Single(IRI))])}

literal(sm, lit, context) ==
    {Ok([with_column(sm, context, [i \in DOMAIN sm.rows |-> Plain(lit.value)])
           EXCEPT !.types = MapPut(sm.types, context, Single(lit.datatype))])}

variable(sm, v, context) ==
    IF v \notin Keys(sm) THEN {Err("VariableNotFound", sm)}
    ELSE LET types == MapPut(sm.types, context, sm.types[v])
         IN IF v \notin ColSet(sm) THEN {Ok(Broken(sm, types))}
            ELSE {Ok([with_column(sm, context, Column(sm, v)) EXCEPT !.types = types])}

bound(sm, v, context) ==
    LET types == MapPut(sm.types, context, Single(XsdBoolean))
    IN IF v \notin ColSet(sm)
       THEN {Ok(Broken(sm, MapRemove(types, context)))}
       ELSE {Ok(drop_inner_contexts(
                  [with_column(sm, context,
                       [i \in DOMAIN sm.rows |-> BoolCell(~IsNull(sm.rows[i][v]))])
                     EXCEPT !.types = types],
                  {context}))}

\* is_in(left, right): membership of each left cell among the right cells
is_in(left, right) ==
    [i \in DOMAIN left |->
       IF IsNull(left[i]) THEN Null
       ELSE BoolCell(\E j \in DOMAIN right : right[j] = left[i])]

\* exists that tests membership in the inner column as it is, true only
\* for a value the column holds once
exists_once(sm, exists_lf, exists_context, context) ==
    IF \/ exists_context \notin ColSet(exists_lf)
       \/ exists_context \notin ColSet(sm)
       \/ /\ exists_context \in Keys(sm) \cap Keys(exists_lf)
          /\ Dtype(exists_lf.types[exists_context]) # Dtype(sm.types[exists_context])
    THEN {Panic(sm)}
    ELSE LET ser == [i \in DOMAIN sm.rows |->
                       IF IsNull(sm.rows[i][exists_context]) THEN Null
                       ELSE BoolCell(Cardinality({j \in DOMAIN exists_lf.rows :
                               exists_lf.rows[j][exists_context]
                                 = sm.rows[i][exists_context]}) = 1)]
         IN {Ok(drop_inner_contexts(with_column(sm, context, ser), {exists_context}))}

\* exists_lf is a frame only; it comes with the dtype of its columns
exists(sm, exists_lf, exists_context, context) ==
    IF \/ exists_context \notin ColSet(exists_lf)
       \/ exists_context \notin ColSet(sm)
       \/ /\ exists_context \in Keys(sm) \cap Keys(exists_lf)
          /\ Dtype(exists_lf.types[exists_context]) # Dtype(sm.types[exists_context])
    THEN {Panic(sm)}
    ELSE LET exists_df == unique_stable(select(exists_lf, <<exists_context>>).rows)
             ser == is_in(Column(sm, exists_context),
                          [j \in DOMAIN exists_df |-> exists_df[j][exists_context]])
         IN {Ok(drop_inner_contexts(with_column(sm, context, ser), {exists_context}))}

\* ------------------------------------------------ values of expressions

\* polars::prelude::Operator
Comparisons == {"Eq", "Lt", "LtEq", "Gt", "GtEq"}
Logicals == {"And", "Or"}
Arithmetics == {"Plus", "Minus", "Multiply", "Divide"}
Operators ==
    Comparisons \cup Logicals \cup Arithmetics
    \cup {"EqValidity", "NotEq", "NotEqValidity", "TrueDivide", "FloorDivide",
          "Modulus", "Xor", "LogicalAnd", "LogicalOr"}

\* three-valued disjunction, conjunction and negation of boolean cells
Or3(a, b) ==
    IF a = Plain(TrueV) \/ b = Plain(TrueV) THEN Plain(TrueV)
    ELSE IF IsNull(a) \/ IsNull(b) THEN Null ELSE Plain(FalseV)
And3(a, b) ==
    IF a = Plain(FalseV) \/ b = Plain(FalseV) THEN Plain(FalseV)
    ELSE IF IsNull(a) \/ IsNull(b) THEN Null ELSE Plain(TrueV)
Not3(a) ==
    IF IsNull(a) THEN Null ELSE BoolCell(a = Plain(FalseV))
Eq3(a, b) ==
    IF IsNull(a) \/ IsNull(b) THEN Null ELSE BoolCell(a = b)

\* the operand dtypes for which the value of Expr::BinaryExpr is modelled:
\* comparison of two columns of one dtype, and/or of booleans, + of
\* integers and of strings, - * / of integers
Evaluable(o, dl, dr) ==
    /\ dl = dr
    /\ \/ o \in Comparisons /\ dl[1] \in {"i64", "str", "bool"}
       \/ o \in Logicals /\ dl[1] = "bool"
       \/ o = "Plus" /\ dl[1] \in {"i64", "str"}
       \/ o \in {"Minus", "Multiply", "Divide"} /\ dl[1] = "i64"

\* the cell Expr::BinaryExpr { left, op, right } gives in one row
BinaryValue(o, a, b) ==
    IF o = "Or" THEN Or3(a, b)
    ELSE IF o = "And" THEN And3(a, b)
    ELSE IF IsNull(a) \/ IsNull(b) THEN Null
    ELSE LET x == IntOf(a.v)
             y == IntOf(b.v)
         IN CASE o = "Eq" -> BoolCell(x = y)
              [] o = "Lt" -> BoolCell(x < y)
              [] o = "LtEq" -> BoolCell(x <= y)
              [] o = "Gt" -> BoolCell(x > y)
              [] o = "GtEq" -> BoolCell(x >= y)
              [] o = "Plus" -> Plain(IntCode(x + y))
              [] o = "Minus" -> Plain(IntCode(x - y))
              [] o = "Multiply" -> Plain(IntCode(x * y))
              [] o = "Divide" -> IF y = 0 THEN Null ELSE Plain(IntCode(x \div y))

\* div_int that knows xsd:integer alone
div_int_integer_only(o, right_type) ==
    o = "Divide" /\ right_type = Single(XsdInteger)

\* lines 108-127: the right operand is a literal of the integer family
IntegerFamily ==
    {XsdInt, XsdLong, XsdInteger, XsdByte, XsdShort,
     XsdUnsignedInt, XsdUnsignedLong, XsdUnsignedByte, XsdUnsignedShort}
div_int(o, right_type) ==
    o = "Divide" /\ ~right_type.multi /\ from_rdf_node_type(right_type) \in IntegerFamily

\* binary_type that gives a logical operator the type of its left operand
binary_type_logical_left(sm, o, left_context, right_context) ==
    IF o \in Comparisons THEN Single(XsdBoolean)
    ELSE IF o \in Logicals
    THEN (IF left_context \in Keys(sm) THEN sm.types[left_context] ELSE Single(XsdBoolean))
    ELSE IF div_int(o, sm.types[right_context]) THEN Single(XsdDouble)
    ELSE sm.types[left_context]

\* lines 91-135: the type recorded for the result
binary_type(sm, o, left_context, right_context) ==
    IF o \in Comparisons \cup Logicals THEN Single(XsdBoolean)
    ELSE IF div_int(o, sm.types[right_context]) THEN Single(XsdDouble)
    ELSE sm.types[left_context]

binary_expression(sm, o, left_context, right_context, context) ==
    IF o \notin Comparisons \cup Logicals \cup Arithmetics THEN {Panic(sm)}
    ELSE IF o \in Arithmetics /\ ~({left_context, right_context} \subseteq Keys(sm))
    THEN {Panic(sm)}
    ELSE LET t == binary_type(sm, o, left_context, right_context)
             types == MapPut(sm.types, context, t)
             inner == {left_context, right_context}
             cells == [i \in DOMAIN sm.rows |->
                         BinaryValue(o, sm.rows[i][left_context], sm.rows[i][right_context])]
             zero == \E i \in DOMAIN sm.rows :
                        o = "Divide" /\ sm.rows[i][right_context] = Plain(IntCode(0))
             failed == Broken(sm, [k \in DOMAIN types \ inner |-> types[k]])
         IN IF ~(inner \subseteq ColSet(sm)) THEN {Ok(failed)}
            ELSE {Ok(drop_inner_contexts(
                       [with_column(sm, context, cells) EXCEPT !.types = types], inner))}
                 \cup (IF zero THEN {Ok(failed)} ELSE {})

\* the type map a call leaves when its plan names a missing column
TypesAfter(sm, context, t, inner) ==
    [k \in (Keys(sm) \cup {context}) \ inner |-> IF k = context THEN t ELSE sm.types[k]]

unary_plus(sm, plus_context, context) ==
    IF plus_context \notin Keys(sm) THEN {Panic(sm)}
    ELSE LET t == sm.types[plus_context]
         IN IF plus_context \notin ColSet(sm)
            THEN {Ok(Broken(sm, TypesAfter(sm, context, t, {plus_context})))}
            ELSE {Ok(drop_inner_contexts(
                       [with_column(sm, context, Column(sm, plus_context))
                          EXCEPT !.types = MapPut(sm.types, context, t)],
                       {plus_context}))}

unary_minus(sm, minus_context, context) ==
    IF minus_context \notin Keys(sm) THEN {Panic(sm)}
    ELSE LET t == sm.types[minus_context]
             cells == [i \in DOMAIN sm.rows |->
                         BinaryValue("Minus", Plain(IntCode(0)), sm.rows[i][minus_context])]
         IN IF minus_context \notin ColSet(sm)
            THEN {Ok(Broken(sm, TypesAfter(sm, context, t, {minus_context})))}
            ELSE {Ok(drop_inner_contexts(
                       [with_column(sm, context, cells)
                          EXCEPT !.types = MapPut(sm.types, context, t)],
                       {minus_context}))}

not_expression(sm, not_context, context) ==
    LET t == Single(XsdBoolean)
    IN IF not_context \notin ColSet(sm)
       THEN {Ok(Broken(sm, TypesAfter(sm, context, t, {not_context})))}
       ELSE {Ok(drop_inner_contexts(
                  [with_column(sm, context,
                       [i \in DOMAIN sm.rows |-> Not3(sm.rows[i][not_context])])
                     EXCEPT !.types = MapPut(sm.types, context, t)],
                  {not_context}))}

\* Expr::Ternary: the falsy branch where the predicate is false or null
if_expression(sm, left_context, middle_context, right_context, context) ==
    IF middle_context \notin Keys(sm) THEN {Panic(sm)}
    ELSE LET t == sm.types[middle_context]
             inner == {left_context, middle_context, right_context}
             cells == [i \in DOMAIN sm.rows |->
                         IF sm.rows[i][left_context] = Plain(TrueV)
                         THEN sm.rows[i][middle_context]
                         ELSE sm.rows[i][right_context]]
         IN IF ~(inner \subseteq ColSet(sm))
            THEN {Ok(Broken(sm, TypesAfter(sm, context, t, inner)))}
            ELSE {Ok(drop_inner_contexts(
                       [with_column(sm, context, cells)
                          EXCEPT !.types = MapPut(sm.types, context, t)],
                       inner))}

\* polars coalesce: the first cell of the row that is not null
RECURSIVE Coalesce(_, _)
Coalesce(row, cs) ==
    IF cs = <<>> THEN Null
    ELSE IF ~IsNull(row[Head(cs)]) THEN row[Head(cs)]
    ELSE Coalesce(row, Tail(cs))

coalesce_expression(sm, inner_contexts, context) ==
    IF inner_contexts = <<>> THEN {Panic(sm)}
    ELSE IF inner_contexts[1] \notin Keys(sm) THEN {Panic(sm)}
    ELSE LET t == sm.types[inner_contexts[1]]
             inner == SeqToSet(inner_contexts)
         IN IF ~(inner \subseteq ColSet(sm))
            THEN {Ok(Broken(sm, TypesAfter(sm, context, t, inner)))}
            ELSE {Ok(drop_inner_contexts(
                       [with_column(sm, context,
                            [i \in DOMAIN sm.rows |-> Coalesce(sm.rows[i], inner_contexts)])
                          EXCEPT !.types = MapPut(sm.types, context, t)],
                       inner))}

\* InFold that joins the equality tests by a conjunction
RECURSIVE InFold_and(_, _, _, _)
InFold_and(expr, row, left_context, right_contexts) ==
    IF right_contexts = <<>> THEN expr
    ELSE InFold_and(And3(expr, Eq3(row[left_context], row[Head(right_contexts)])),
                    row, left_context, Tail(right_contexts))

\* lines 667-679: the expression over one row, folded left to right from
\* the literal false
RECURSIVE InFold(_, _, _, _)
InFold(expr, row, left_context, right_contexts) ==
    IF right_contexts = <<>> THEN expr
    ELSE InFold(Or3(expr, Eq3(row[left_context], row[Head(right_contexts)])),
                row, left_context, Tail(right_contexts))

in_expression(sm, left_context, right_contexts, context) ==
    LET t == Single(XsdBoolean)
        inner == {left_context} \cup SeqToSet(right_contexts)
        named == IF right_contexts = <<>> THEN {} ELSE inner
        cells == [i \in DOMAIN sm.rows |->
                    InFold(Plain(FalseV), sm.rows[i], left_context, right_contexts)]
    IN IF ~(named \subseteq ColSet(sm))
       THEN {Ok(Broken(sm, TypesAfter(sm, context, t, inner)))}
       ELSE {Ok(drop_inner_contexts(
                  drop_inner_contexts(
                     [with_column(sm, context, cells)
                        EXCEPT !.types = MapPut(sm.types, context, t)],
                     {left_context}),
                  SeqToSet(right_contexts)))}

\* ----------------------------------------------------- func_expression
\* spargebra Function, as [name, iri]; iri is read for Custom only
Temporal == {"Year", "Month", "Day", "Hours", "Minutes", "Seconds"}
StringTests == {"Contains", "StrStarts", "StrEnds"}
OneArgCustom ==
    {"xsd:integer", "xsd:string", "DATETIME_AS_NANOS", "DATETIME_AS_SECONDS",
     "NANOS_AS_DATETIME", "SECONDS_AS_DATETIME"}
TwoArgCustom == {"MODULUS", "FLOOR_DATETIME_TO_SECONDS_INTERVAL"}

\* the match arm has a translation: the function is one of lines 319-652
Translated(func) ==
    \/ func.name \in Temporal \cup StringTests
                     \cup {"Abs", "Ceil", "Floor", "Round", "Concat", "Regex"}
    \/ func.name = "Custom" /\ func.iri \in OneArgCustom \cup TwoArgCustom

\* the assert on args.len() of the arm holds
ArgsAccepted(func, n) ==
    IF func.name = "Concat" THEN n > 1
    ELSE IF func.name \in StringTests \cup {"Regex"} THEN n = 2
    ELSE IF func.name = "Custom" /\ func.iri \in TwoArgCustom THEN n = 2
    ELSE n = 1

\* the arm reads the type of its first argument (Abs, Round)
KeepsType(func) == func.name \in {"Abs", "Round"}

\* the type the arm records
FuncType(sm, func, first_context) ==
    IF func.name \in Temporal THEN Single(XsdUnsignedInt)
    ELSE IF KeepsType(func) THEN sm.types[first_context]
    ELSE IF func.name \in {"Ceil", "Floor"} THEN Single(XsdInteger)
    ELSE IF func.name \in {"Concat", "Regex"} THEN Single(XsdString)
    ELSE IF func.name \in StringTests THEN Single(XsdBoolean)
    ELSE IF func.iri \in {"xsd:integer", "DATETIME_AS_NANOS", "DATETIME_AS_SECONDS", "MODULUS"}
    THEN Single(XsdInteger)
    ELSE IF func.iri = "xsd:string" THEN Single(XsdString)
    ELSE Single(XsdDateTime)

\* the columns the arm's expression names
FuncColumns(func, args, args_contexts) ==
    IF func.name = "Concat" THEN SeqToSet(args_contexts)
    ELSE IF func.name = "Regex" THEN {args_contexts[1]}
    ELSE IF Len(args) = 2 THEN {args_contexts[1], args_contexts[2]}
    ELSE {args_contexts[1]}

\* the functions and argument dtypes for which the value is modelled
FuncEvaluable(func, args, dtypes) ==
    \/ func.name = "Abs" /\ dtypes[1][1] = "i64"
    \/ func.name \in {"Concat"} \cup StringTests /\ \A i \in DOMAIN dtypes : dtypes[i][1] = "str"
    \/ func.name = "Regex" /\ dtypes[1][1] = "str"
    \/ func.name = "Custom" /\ func.iri = "xsd:integer" /\ dtypes[1][1] \in {"i64", "bool", "str"}
    \/ func.name = "Custom" /\ func.iri = "MODULUS" /\ \A i \in DOMAIN dtypes : dtypes[i][1] = "i64"
    \/ /\ func.name = "Custom" /\ func.iri = "FLOOR_DATETIME_TO_SECONDS_INTERVAL"
       /\ Len(dtypes) = 2 /\ dtypes[1][1] = "datetime" /\ dtypes[2][1] = "i64"

\* lines 585-588: the datetime in milliseconds, cast to UInt64 (a value
\* the type cannot hold becomes null) and divided by 1000
MsPerSecond == 1000
first_as_seconds(a) ==
    IF IsNull(a) \/ IntOf(a.v) < 0 THEN Null ELSE Plain(IntCode(IntOf(a.v) \div MsPerSecond))

\* concat_str(cols, "", true): the lengths of the strings that are not null
RECURSIVE ConcatLen(_, _)
ConcatLen(row, cs) ==
    IF cs = <<>> THEN 0
    ELSE (IF IsNull(row[Head(cs)]) THEN 0 ELSE IntOf(row[Head(cs)].v))
         + ConcatLen(row, Tail(cs))

\* the cell the arm's expression gives in one row
FuncValue(func, args, args_contexts, row, dtypes) ==
    LET a == row[args_contexts[1]]
    IN CASE func.name = "Abs" ->
              IF IsNull(a) THEN Null
              ELSE Plain(IntCode(IF IntOf(a.v) < 0 THEN 0 - IntOf(a.v) ELSE IntOf(a.v)))
         [] func.name = "Concat" -> Plain(IntCode(ConcatLen(row, args_contexts)))
         [] func.name = "Regex" ->
              IF IsNull(a) THEN Null ELSE BoolCell(IntOf(args[2].value) <= IntOf(a.v))
         [] func.name \in StringTests ->
              LET b == row[args_contexts[2]]
              IN IF IsNull(a) \/ IsNull(b) THEN Null ELSE BoolCell(IntOf(b.v) <= IntOf(a.v))
         [] func.name = "Custom" /\ func.iri = "xsd:integer" ->
              IF dtypes[1][1] = "str" THEN Null ELSE a
         [] func.name = "Custom" /\ func.iri = "MODULUS" ->
              LET b == row[args_contexts[2]]
              IN IF IsNull(a) \/ IsNull(b) \/ IntOf(b.v) = 0 THEN Null
                 ELSE Plain(IntCode(IntOf(a.v) % IntOf(b.v)))
         [] func.name = "Custom" /\ func.iri = "FLOOR_DATETIME_TO_SECONDS_INTERVAL" ->
              LET s == first_as_seconds(a)
                  b == row[args_contexts[2]]
              IN IF IsNull(s) \/ IsNull(b) \/ IntOf(b.v) = 0 THEN Null
                 ELSE Plain(IntCode((IntOf(s.v) - (IntOf(s.v) % IntOf(b.v))) * MsPerSecond))

\* args: the argument expressions, [literal, value]; args_contexts: the
\* context of argument i at place i (a shorter list leaves the later
\* arguments without a context)
func_expression(sm, func, args, args_contexts, context) ==
    LET inner == SeqToSet(args_contexts)
        dropped == drop_inner_contexts(sm, inner)
    IN IF ~Translated(func) \/ ~ArgsAccepted(func, Len(args)) THEN {Panic(sm)}
       ELSE IF \/ Len(args_contexts) = 0
               \/ (func.name # "Regex" /\ Len(args_contexts) < Len(args))
       THEN {Panic(sm)}
       ELSE IF func.name = "Regex" /\ ~args[2].literal THEN {Ok(dropped)}
       ELSE IF KeepsType(func) /\ args_contexts[1] \notin Keys(sm) THEN {Panic(sm)}
       ELSE LET t == FuncType(sm, func, args_contexts[1])
                named == FuncColumns(func, args, args_contexts)
                dtypes == [i \in DOMAIN args_contexts |->
                             IF args_contexts[i] \in Keys(sm)
                             THEN Dtype(sm.types[args_contexts[i]]) ELSE <<"none", <<>>>>]
                cells == [i \in DOMAIN sm.rows |->
                            FuncValue(func, args, args_contexts, sm.rows[i], dtypes)]
                zero == /\ func.name = "Custom"
                        /\ func.iri \in {"MODULUS", "FLOOR_DATETIME_TO_SECONDS_INTERVAL"}
                        /\ \E i \in DOMAIN sm.rows :
                              sm.rows[i][args_contexts[2]] = Plain(IntCode(0))
                failed == Broken(sm, TypesAfter(sm, context, t, inner))
            IN IF ~(named \subseteq ColSet(sm)) THEN {Ok(failed)}
               ELSE {Ok(drop_inner_contexts(
                          [with_column(sm, context, cells)
                             EXCEPT !.types = MapPut(sm.types, context, t)],
                          inner))}
                    \cup (IF zero THEN {Ok(failed)} ELSE {})

\* ================================================================ inputs
\* The relations the operators are called with: over each schema, every
\* sequence of rows whose cells are null or one of the values 1..MaxVal
\* (for a multi-type column, a value of one of its base types).
Cells(type) ==
    IF type.multi
    THEN {Null} \cup {Tagged(b, n) : b \in SeqToSet(type.ts), n \in 1..MaxVal}
    ELSE {Null} \cup {Plain(n) : n \in 1..MaxVal}

\* a schema: columns, their types, and the columns that hold no null
Schema(cols, types, notnull) == [cols |-> cols, types |-> types, notnull |-> notnull]

RowsOf(s) ==
    {row \in [SeqToSet(s.cols) -> UNION {Cells(s.types[c]) : c \in SeqToSet(s.cols)}] :
       \A c \in SeqToSet(s.cols) :
          /\ row[c] \in Cells(s.types[c])
          /\ c \in s.notnull => ~IsNull(row[c])}

RelsOfLen(s, k) ==
    {SolutionMappings(s.cols, rows, s.types) : rows \in [1..k -> RowsOf(s)]}

SchXInt == Schema(<<"x">>, [c \in {"x"} |-> Single(XsdInteger)], {})
SchXStr == Schema(<<"x">>, [c \in {"x"} |-> Single(XsdString)], {})
SchXMulti == Schema(<<"x">>, [c \in {"x"} |-> MultiType(<<XsdInteger, XsdString>>)], {})
SchY == Schema(<<"y">>, [c \in {"y"} |-> Single(XsdInteger)], {})
SchXY == Schema(<<"x", "y">>, [c \in {"x", "y"} |-> Single(XsdInteger)], {"x", "y"})
SchXEc == Schema(<<"x", "ec">>, [c \in {"x", "ec"} |-> Single(XsdInteger)], {"x", "ec"})
SchEc == Schema(<<"ec">>, [c \in {"ec"} |-> Single(XsdInteger)], {"ec"})

\* the types a column takes in the calls that exercise the type maps only
\* (every MultiType sorted, with at least two distinct elements)
TypeChoices ==
    {Single(IRI), Single(XsdInteger), Single(XsdString),
     MultiType(<<XsdInteger, XsdString>>), MultiType(<<IRI, XsdInteger>>),
     MultiType(<<IRI, XsdInteger, XsdString>>)}
TypeSchemas ==
    {Schema(<<"x">>, [c \in {"x"} |-> t], {}) : t \in TypeChoices}
    \cup {Schema(<<"x", "y">>, [c \in {"x", "y"} |-> IF c = "x" THEN t ELSE Single(XsdInteger)], {})
            : t \in TypeChoices}
    \cup {SchY}

\* A pair of schemas a binary operator is called on.  With data, the two
\* relations hold up to MaxInRows rows together; without, they are empty.
Pair(l, r, data) == [l |-> l, r |-> r, data |-> data]
TypePairs == {Pair(l, r, FALSE) : l \in TypeSchemas, r \in TypeSchemas}

JoinPairs ==
    {Pair(SchXInt, SchXInt, TRUE), Pair(SchXInt, SchXStr, TRUE), Pair(SchXInt, SchY, TRUE),
     Pair(SchXInt, SchXY, TRUE), Pair(SchXStr, SchXStr, TRUE), Pair(SchXMulti, SchXInt, TRUE),
     Pair(SchXMulti, SchY, TRUE)}
    \cup TypePairs
MinusPairs ==
    {Pair(SchXInt, SchXInt, TRUE), Pair(SchXInt, SchY, TRUE), Pair(SchXInt, SchXY, TRUE),
     Pair(SchXStr, SchXStr, TRUE), Pair(SchXStr, SchXInt, TRUE), Pair(SchXY, SchXInt, TRUE),
     Pair(SchXY, SchXY, TRUE)}
UnionPairs ==
    {Pair(SchXInt, SchXStr, TRUE), Pair(SchXInt, SchXInt, TRUE), Pair(SchXInt, SchXMulti, TRUE),
     Pair(SchXMulti, SchXInt, TRUE), Pair(SchXMulti, SchXMulti, TRUE), Pair(SchXInt, SchY, TRUE),
     Pair(SchY, SchXMulti, TRUE), Pair(SchXMulti, SchY, TRUE), Pair(SchXY, SchXStr, TRUE)}
    \cup TypePairs
ExistsPairs ==
    {Pair(SchXEc, SchEc, TRUE), Pair(SchXEc, SchXEc, TRUE), Pair(SchXEc, SchXInt, TRUE)}

\* the left operands of a set of pairs
Lefts(pairs) ==
    UNION {UNION {RelsOfLen(p.l, k) : k \in 0..(IF p.data THEN MaxInRows ELSE 0)}
             : p \in pairs}

\* the right operands the pairs allow for the left operand l
RightsOf(pairs, l) ==
    UNION {UNION {RelsOfLen(p.r, k) :
                    k \in IF p.data THEN 0..(MaxInRows - NRows(l))
                          ELSE IF NRows(l) = 0 THEN {0} ELSE {}}
             : p \in {q \in pairs : q.l.cols = l.cols /\ q.l.types = l.types}}

\* the relations a pipeline starts from and takes as right operands
PipePool ==
    {SolutionMappings(<<"x">>, <<[c \in {"x"} |-> Plain(1)], [c \in {"x"} |-> Plain(2)]>>,
                      [c \in {"x"} |-> Single(XsdInteger)]),
     SolutionMappings(<<"x">>, <<[c \in {"x"} |-> Plain(1)]>>,
                      [c \in {"x"} |-> Single(XsdString)]),
     SolutionMappings(<<"y">>, <<[c \in {"y"} |-> Plain(1)], [c \in {"y"} |-> Null]>>,
                      [c \in {"y"} |-> Single(XsdInteger)]),
     SolutionMappings(<<"x", "ec">>,
                      <<[c \in {"x", "ec"} |-> Plain(1)], [c \in {"x", "ec"} |-> Plain(2)]>>,
                      [c \in {"x", "ec"} |-> Single(XsdInteger)])}

\* ---- the relations the expression compiler is called on: the columns
\* c1, c2, c3 are the results of the child expressions already compiled
ChildTypes ==
    {Single(IRI), Single(XsdBoolean), Single(XsdInteger), Single(XsdString),
     Single(XsdDouble), Single(XsdInt), Single(XsdLong), Single(XsdUnsignedInt),
     Single(XsdByte), Single(XsdShort), Single(XsdUnsignedLong),
     Single(XsdUnsignedByte), Single(XsdUnsignedShort),
     MultiType(<<XsdInteger, XsdString>>)}

\* a relation without rows: x, and every child column named in types or
\* in untyped (a column a child left without a type entry, as exists does)
ExprTypeRel(children, untyped, types) ==
    SolutionMappings(<<"x">> \o children, <<>>,
                     [c \in {"x"} \cup (SeqToSet(children) \ untyped) |->
                        IF c = "x" THEN Single(XsdInteger) ELSE types[c]])

ExprTypePool ==
    {ExprTypeRel(<<"c1", "c2">>, {}, [c \in {"c1", "c2"} |-> IF c = "c1" THEN t1 ELSE t2])
       : t1 \in ChildTypes, t2 \in ChildTypes}
    \cup {ExprTypeRel(<<"c1", "c2">>, {u}, [c \in {"c1", "c2"} |-> t])
            : u \in {"c1", "c2"}, t \in ChildTypes}
    \cup {ExprTypeRel(<<"c1">>, {}, [c \in {"c1"} |-> t]) : t \in ChildTypes}
    \cup {ExprTypeRel(<<"c1", "c2", "c3">>, {},
                      [c \in {"c1", "c2", "c3"} |->
                         IF c = "c1" THEN Single(XsdBoolean) ELSE IF c = "c2" THEN t2 ELSE t3])
            : t2 \in {Single(XsdInteger), Single(XsdString)},
              t3 \in {Single(XsdInteger), Single(XsdString)}}

\* relations with rows: row i has x = i, the child columns hold null or a
\* value; the children have one type
ExprDataRels(children, types) ==
    LET cs == SeqToSet(children)
        Rows == {row \in [{"x"} \cup cs -> {Null} \cup {Plain(n) : n \in 1..MaxVal}] :
                   /\ row["x"] = Plain(1)
                   /\ \A c \in cs : types[c] = Single(XsdBoolean)
                                     => row[c] \in {Null, Plain(FalseV), Plain(TrueV)}}
    IN {SolutionMappings(<<"x">> \o children,
                         [i \in DOMAIN rows |-> [rows[i] EXCEPT !["x"] = Plain(i)]],
                         [c \in {"x"} \cup cs |-> IF c = "x" THEN Single(XsdInteger) ELSE types[c]])
          : rows \in UNION {[1..k -> Rows] : k \in 1..(MaxInRows - 2)}}

ExprDataPool ==
    UNION {ExprDataRels(<<"c1", "c2">>, [c \in {"c1", "c2"} |-> Single(b)])
             : b \in {XsdBoolean, XsdInteger, XsdString}}
    \cup ExprDataRels(<<"c1", "c2", "c3">>, [c \in {"c1", "c2", "c3"} |-> Single(XsdBoolean)])

ExprPool == ExprTypePool \cup ExprDataPool

Functions ==
    {[name |-> n, iri |-> ""] :
        n \in Temporal \cup StringTests
              \cup {"Abs", "Ceil", "Floor", "Round", "Concat", "Regex", "StrLen"}}
    \cup {[name |-> "Custom", iri |-> i] : i \in OneArgCustom \cup TwoArgCustom \cup {"other"}}

\* argument lists: one to three compiled expressions, the second one
\* possibly a literal
NotLiteral == [literal |-> FALSE, value |-> 0]
ArgLists ==
    {<<NotLiteral>>, <<NotLiteral, NotLiteral>>, <<NotLiteral, NotLiteral, NotLiteral>>}
    \cup {<<NotLiteral, [literal |-> TRUE, value |-> v]>> : v \in 1..2}
ChildContexts == <<"c1", "c2", "c3">>

Contexts == {"c1", "c2"}
Variables == {"x", "y"}
Uuids == {"u1", "u2"}
Literals == {[value |-> TrueV, datatype |-> XsdBoolean],
             [value |-> 1, datatype |-> XsdInteger]}

\* ================================================================= state
VARIABLES
    sm,       \* the SolutionMappings the last call returned
    inL,      \* the SolutionMappings the last call was given
    inR,      \* its right operand (or the frame exists was given)
    op,       \* the last call
    arg,      \* its other arguments
    res,      \* Ok, an error kind, or Panic
    pending,  \* what prepare_group_by handed over for group_by
    fuel,     \* calls left
    collected \* the lazy frames collected so far, with the call that did

vars == <<sm, inL, inR, op, arg, res, pending, fuel, collected>>

NoRel == SolutionMappings(<<>>, <<>>, EmptyMap)
NoArg ==
    [context |-> "", inner |-> <<>>, v |-> "", lit |-> 0, asc |-> <<>>, aggs |-> <<>>,
     f |-> "", iri |-> "", args |-> <<>>]
NoPending == [active |-> FALSE, by |-> <<>>, dummy_varname |-> ""]

Start(rels, n) ==
    /\ sm \in rels
    /\ inL = NoRel /\ inR = NoRel /\ op = "init" /\ arg = NoArg
    /\ res = "Ok" /\ pending = NoPending /\ fuel = n
    /\ collected = <<>>

\* a pipeline of up to MaxSteps calls
Init == Start(PipePool, MaxSteps)
\* one call on inputs drawn from the pool of the operator
InitJoin == Start(Lefts(JoinPairs), 1)
InitMinus == Start(Lefts(MinusPairs), 1)
InitUnion == Start(Lefts(UnionPairs), 1)
InitExists == Start(Lefts(ExistsPairs), 1)

Ready == res = "Ok" /\ ~sm.bad /\ fuel > 0 /\ ~pending.active

\* Materializes with a collect in distinct as well
Materializes_distinct(name) ==
    IF name = "exists" THEN <<"outer", "probe">>
    ELSE IF name = "distinct" THEN <<"outer">>
    ELSE <<>>

\* the frames a call collects, in order: exists collects its
\* solution_mappings (expressions.rs 290) and then the distinct selection
\* of exists_lf (291-295); no other function calls LazyFrame::collect
Materializes(name) ==
    IF name = "exists" THEN <<"outer", "probe">> ELSE <<>>

Return(name, a, R, outcome, pend) ==
    /\ NRows(outcome.sm) <= MaxRows
    /\ sm' = outcome.sm
    /\ res' = outcome.res
    /\ inL' = sm
    /\ inR' = R
    /\ op' = name
    /\ arg' = a
    /\ pending' = pend
    /\ fuel' = fuel - 1
    /\ collected' = collected \o [i \in DOMAIN Materializes(name) |->
                                    [fuel |-> fuel, frame |-> Materializes(name)[i]]]

\* ------------------------------------------------------------- actions
Distinct ==
    /\ Ready
    /\ \E o \in distinct(sm) : Return("distinct", NoArg, NoRel, o, NoPending)

Extend ==
    /\ Ready
    /\ \E c \in Contexts, v \in Variables :
         \E o \in extend(sm, c, v) :
            Return("extend", [NoArg EXCEPT !.context = c, !.v = v], NoRel, o, NoPending)

Filter ==
    /\ Ready
    /\ \E c \in Contexts :
         \E o \in filter(sm, c) :
            Return("filter", [NoArg EXCEPT !.context = c], NoRel, o, NoPending)

PrepareGroupBy ==
    /\ Ready
    /\ \E variables \in {<<>>, <<"x">>}, uuid \in Uuids :
         LET p == prepare_group_by(sm, variables, uuid)
         IN Return("prepare_group_by", [NoArg EXCEPT !.inner = variables], NoRel, Ok(p.sm),
                   [active |-> TRUE, by |-> p.by, dummy_varname |-> p.dummy_varname])

GroupBy ==
    /\ res = "Ok" /\ ~sm.bad /\ pending.active
    /\ \E aggs \in {<<>>, <<[name |-> "n", of |-> "x"]>>} :
         \E o \in group_by(sm, aggs, pending.by, pending.dummy_varname,
                           [k \in {aggs[i].name : i \in DOMAIN aggs} |-> Single(XsdInteger)]) :
            /\ Return("group_by",
                      [NoArg EXCEPT !.aggs = aggs, !.inner = pending.by,
                                    !.v = pending.dummy_varname],
                      NoRel, o, NoPending)

JoinWith(rights) ==
    /\ Ready
    /\ \E R \in rights : \E o \in join(sm, R) : Return("join", NoArg, R, o, NoPending)

LeftJoinWith(rights) ==
    /\ Ready
    /\ \E R \in rights : \E o \in left_join(sm, R) :
         Return("left_join", NoArg, R, o, NoPending)

MinusWith(rights) ==
    /\ Ready
    /\ \E R \in rights : \E o \in minus(sm, R) : Return("minus", NoArg, R, o, NoPending)

UnionWith(rights) ==
    /\ Ready
    /\ \E R \in rights : \E o \in union(sm, R) : Return("union", NoArg, R, o, NoPending)

OrderBy ==
    /\ Ready
    /\ \E asc \in {<<TRUE>>, <<FALSE>>} :
         \E o \in order_by(sm, <<"c1">>, asc) :
            Return("order_by", [NoArg EXCEPT !.inner = <<"c1">>, !.asc = asc],
                   NoRel, o, NoPending)

Project ==
    /\ Ready
    /\ \E variables \in {<<"x">>, <<"y", "x">>, <<"c1", "x">>} :
         \E o \in project(sm, variables) :
            Return("project", [NoArg EXCEPT !.inner = variables], NoRel, o, NoPending)

NamedNode ==
    /\ Ready
    /\ \E c \in Contexts :
         \E o \in named_node(sm, 1, c) :
            Return("named_node", [NoArg EXCEPT !.context = c], NoRel, o, NoPending)

Literal ==
    /\ Ready
    /\ \E c \in Contexts, lit \in Literals :
         \E o \in literal(sm, lit, c) :
            Return("literal", [NoArg EXCEPT !.context = c, !.lit = lit.value],
                   NoRel, o, NoPending)

Variable ==
    /\ Ready
    /\ \E c \in Contexts, v \in Variables :
         \E o \in variable(sm, v, c) :
            Return("variable", [NoArg EXCEPT !.context = c, !.v = v], NoRel, o, NoPending)

Bound ==
    /\ Ready
    /\ \E c \in Contexts, v \in Variables :
         \E o \in bound(sm, v, c) :
            Return("bound", [NoArg EXCEPT !.context = c, !.v = v], NoRel, o, NoPending)

ExistsWith(rights) ==
    /\ Ready
    /\ \E R \in rights, c \in Contexts :
         \E o \in exists(sm, R, "ec", c) :
            Return("exists", [NoArg EXCEPT !.context = c, !.inner = <<"ec">>],
                   R, o, NoPending)

Join == JoinWith(PipePool)
LeftJoin == LeftJoinWith(PipePool)
Minus == MinusWith(PipePool)
Union == UnionWith(PipePool)
Exists == ExistsWith(PipePool)

Next ==
    \/ Distinct \/ Extend \/ Filter \/ PrepareGroupBy \/ GroupBy
    \/ Join \/ LeftJoin \/ Minus \/ OrderBy \/ Project \/ Union
    \/ NamedNode \/ Literal \/ Variable \/ Bound \/ Exists

Spec == Init /\ [][Next]_vars

\* single calls of the join family, of minus, of union and of exists
JoinOp == JoinWith(RightsOf(JoinPairs, sm))
LeftJoinOp == LeftJoinWith(RightsOf(JoinPairs, sm))
MinusOp == MinusWith(RightsOf(MinusPairs, sm))
UnionOp == UnionWith(RightsOf(UnionPairs, sm))
ExistsOp == ExistsWith(RightsOf(ExistsPairs, sm))

NextJoin == JoinOp \/ LeftJoinOp
SpecJoin == InitJoin /\ [][NextJoin]_vars
SpecMinus == InitMinus /\ [][MinusOp]_vars
SpecUnion == InitUnion /\ [][UnionOp]_vars
SpecExists == InitExists /\ [][ExistsOp]_vars

\* ---- one call of an expression-compiler operation with child contexts;
\* the result context is "n".  On a relation with rows an operation whose
\* plan can be collected is called with operand dtypes its value is
\* modelled for.
DtypesOf(cs) == [i \in DOMAIN cs |-> IF cs[i] \in Keys(sm) THEN Dtype(sm.types[cs[i]])
                                     ELSE <<"none", <<>>>>]
SameDtypes(cs) == \A i, j \in DOMAIN cs : DtypesOf(cs)[i] = DtypesOf(cs)[j]
ExprArg(f, inner) == [NoArg EXCEPT !.context = "n", !.f = f, !.inner = inner]

BinaryExpression ==
    /\ Ready
    /\ \E o \in Operators, l \in {"c1", "c2"}, r \in {"c1", "c2"} :
         /\ l # r
         /\ \/ NRows(sm) = 0
            \/ o \notin Comparisons \cup Logicals \cup Arithmetics
            \/ Evaluable(o, DtypesOf(<<l>>)[1], DtypesOf(<<r>>)[1])
         /\ \E out \in binary_expression(sm, o, l, r, "n") :
               Return("binary_expression", ExprArg(o, <<l, r>>), NoRel, out, NoPending)

UnaryPlus ==
    /\ Ready
    /\ \E c \in {"c1", "c2"} :
         \E out \in unary_plus(sm, c, "n") :
            Return("unary_plus", ExprArg("", <<c>>), NoRel, out, NoPending)

UnaryMinus ==
    /\ Ready
    /\ \E c \in {"c1", "c2"} :
         /\ NRows(sm) = 0 \/ DtypesOf(<<c>>)[1][1] = "i64"
         /\ \E out \in unary_minus(sm, c, "n") :
               Return("unary_minus", ExprArg("", <<c>>), NoRel, out, NoPending)

NotExpression ==
    /\ Ready
    /\ \E c \in {"c1", "c2"} :
         /\ NRows(sm) = 0 \/ DtypesOf(<<c>>)[1][1] = "bool"
         /\ \E out \in not_expression(sm, c, "n") :
               Return("not_expression", ExprArg("", <<c>>), NoRel, out, NoPending)

IfExpression ==
    /\ Ready
    /\ \/ NRows(sm) = 0
       \/ /\ "c3" \in ColSet(sm)
          /\ DtypesOf(<<"c1">>)[1][1] = "bool" /\ SameDtypes(<<"c2", "c3">>)
    /\ \E out \in if_expression(sm, "c1", "c2", "c3", "n") :
          Return("if_expression", ExprArg("", <<"c1", "c2", "c3">>), NoRel, out, NoPending)

CoalesceExpression ==
    /\ Ready
    /\ \E cs \in {<<>>, <<"c1">>, <<"c1", "c2">>, <<"c2", "c1">>} :
         /\ NRows(sm) = 0 \/ SameDtypes(cs)
         /\ \E out \in coalesce_expression(sm, cs, "n") :
               Return("coalesce_expression", ExprArg("", cs), NoRel, out, NoPending)

InExpression ==
    /\ Ready
    /\ \E cs \in {<<>>, <<"c2">>, <<"c2", "c3">>} :
         /\ NRows(sm) = 0 \/ (SeqToSet(cs) \subseteq ColSet(sm) /\ SameDtypes(<<"c1">> \o cs))
         /\ \E out \in in_expression(sm, "c1", cs, "n") :
               Return("in_expression", ExprArg("", <<"c1">> \o cs), NoRel, out, NoPending)

FuncExpression ==
    /\ Ready
    /\ \E func \in Functions, args \in ArgLists :
         LET args_contexts == SubSeq(ChildContexts, 1, Len(args))
         IN /\ \/ NRows(sm) = 0
               \/ ~Translated(func) \/ ~ArgsAccepted(func, Len(args))
               \/ func.name = "Regex" /\ Len(args) = 2 /\ ~args[2].literal
               \/ /\ SeqToSet(args_contexts) \subseteq ColSet(sm)
                  /\ FuncEvaluable(func, args, DtypesOf(args_contexts))
            /\ \E out \in func_expression(sm, func, args, args_contexts, "n") :
                  Return("func_expression",
                         [ExprArg(func.name, args_contexts) EXCEPT !.iri = func.iri, !.args = args],
                         NoRel, out, NoPending)

InitExpr == Start(ExprPool \cup Lefts(ExistsPairs), 1)
NextExpr ==
    \/ BinaryExpression \/ UnaryPlus \/ UnaryMinus \/ NotExpression \/ IfExpression
    \/ CoalesceExpression \/ InExpression \/ FuncExpression \/ ExistsOp
SpecExpr == InitExpr /\ [][NextExpr]_vars

\* ---- one call of func_expression on a relation with a datetime column
\* c1 (a cell holds the milliseconds since the epoch) and an integer
\* column c2; row i has x = i
Instants == {0 - 1500, 0 - 1, 0, 999, 1000, 2500, 7000}
FloorRels(k) ==
    {SolutionMappings(<<"x", "c1", "c2">>,
                      [i \in 1..k |-> [c \in {"x", "c1", "c2"} |->
                                         IF c = "x" THEN Plain(i) ELSE cells[i][c]]],
                      [c \in {"x", "c1", "c2"} |->
                         IF c = "c1" THEN Single(XsdDateTime) ELSE Single(XsdInteger)])
       : cells \in [1..k -> {r \in [{"c1", "c2"} ->
                                     {Null} \cup {Plain(IntCode(n)) : n \in Instants \cup 0..MaxInterval}] :
                               /\ IsNull(r["c1"]) \/ IntOf(r["c1"].v) \in Instants
                               /\ IsNull(r["c2"]) \/ IntOf(r["c2"].v) \in 0..MaxInterval}]}

InitFloor == Start(UNION {FloorRels(k) : k \in 1..(MaxInRows - 2)}, 1)
SpecFloor == InitFloor /\ [][FuncExpression]_vars

\* ---- one call of order_by on a relation whose sort-key columns c1, c2
\* are compiled already: row i has x = i, the keys hold null or a number
OrderRels(k) ==
    {SolutionMappings(<<"x", "c1", "c2">>,
                      [i \in 1..k |-> [c \in {"x", "c1", "c2"} |->
                                         IF c = "x" THEN Plain(i) ELSE keys[i][c]]],
                      [c \in {"x", "c1", "c2"} |-> Single(XsdInteger)])
       : keys \in [1..k -> [{"c1", "c2"} -> {Null} \cup {Plain(n) : n \in 1..MaxVal}]]}

InitOrder == Start(UNION {OrderRels(k) : k \in 0..(MaxInRows - 1)}, 1)

OrderByKeys ==
    /\ Ready
    /\ \E inner_contexts \in {<<"c1">>, <<"c1", "c2">>, <<"c2", "c1">>} :
         \E asc \in [DOMAIN inner_contexts -> BOOLEAN] :
            \E o \in order_by(sm, inner_contexts, asc) :
               Return("order_by", [NoArg EXCEPT !.inner = inner_contexts, !.asc = asc],
                      NoRel, o, NoPending)

SpecOrder == InitOrder /\ [][OrderByKeys]_vars


\* ================================================================ claims
\* how often a row occurs in a sequence of rows
Count(rows, row) == Cardinality({i \in DOMAIN rows : rows[i] = row})
Restrict(row, cs) == [c \in cs |-> row[c]]
Bases(type) == SeqToSet(type.ts)
Returned == res = "Ok" /\ ~sm.bad

\* C1: between operator calls, the key set of the type map of a returned
\* relation is exactly the relation's column set.
C1_KeysAreColumns ==
    (Returned /\ ~pending.active) => Keys(sm) = ColSet(sm)

\* C2: union's type map has the keys of both sides; a column both sides
\* have with different types gets the MultiType of the sorted,
\* duplicate-free union of both sides' base types; any other column keeps
\* the type of the side that has it.
C2_UnionTypes ==
    (op = "union" /\ res = "Ok") =>
       /\ Keys(sm) = Keys(inL) \cup Keys(inR)
       /\ \A c \in Keys(sm) :
            IF c \in Keys(inL) \cap Keys(inR) /\ inL.types[c] # inR.types[c]
            THEN sm.types[c] = MultiType(SortedSeq(Bases(inL.types[c]) \cup Bases(inR.types[c])))
            ELSE IF c \in Keys(inL) THEN sm.types[c] = inL.types[c]
            ELSE sm.types[c] = inR.types[c]

\* a single type on the left met a multi-type on the right whose base
\* types all sort before it
C2_Witness ==
    /\ op = "union" /\ res = "Ok"
    /\ \E c \in Keys(inL) \cap Keys(inR) :
         /\ ~inL.types[c].multi /\ inR.types[c].multi
         /\ \A b \in Bases(inR.types[c]) : b < from_rdf_node_type(inL.types[c])
         /\ Len(sm.types[c].ts) = 3

\* C3: for a column of type A on the left and B # A on the right, union
\* has the rows of both sides, and exploding the column again gives every
\* left row its value under A and null under B, every right row its value
\* under B and null under A.
C3_UnionKeepsValues ==
    \A c \in Keys(inL) \cap Keys(inR) :
       (/\ op = "union" /\ Returned
        /\ ~inL.types[c].multi /\ ~inR.types[c].multi
        /\ inL.types[c] # inR.types[c]) =>
          LET A == from_rdf_node_type(inL.types[c])
              B == from_rdf_node_type(inR.types[c])
              cA == c \o non_multi_type_string(A)
              cB == c \o non_multi_type_string(B)
              ex == ExplodeCol(sm, c, sm.types[c].ts)
          IN /\ NRows(sm) = NRows(inL) + NRows(inR)
             /\ c \in ColSet(sm)
             /\ \A i \in DOMAIN inL.rows :
                  ex.rows[i][cA] = inL.rows[i][c] /\ ex.rows[i][cB] = Null
             /\ \A j \in DOMAIN inR.rows :
                  /\ ex.rows[NRows(inL) + j][cB] = inR.rows[j][c]
                  /\ ex.rows[NRows(inL) + j][cA] = Null

\* integer rows and a string row holding the same raw value were unioned
C3_Witness ==
    /\ op = "union" /\ Returned
    /\ inL.types = [c \in {"x"} |-> Single(XsdInteger)]
    /\ inR.types = [c \in {"x"} |-> Single(XsdString)]
    /\ NRows(inL) = 2 /\ NRows(inR) = 1
    /\ inL.rows[1]["x"] = Plain(1) /\ inR.rows[1]["x"] = Plain(1)
    /\ sm.rows[1]["x"] = Tagged(XsdInteger, 1)
    /\ sm.rows[3]["x"] = Tagged(XsdString, 1)

\* a right row agrees with a left row on the shared columns
Agree(lrow, rrow, shared) ==
    \A c \in shared : ~IsNull(lrow[c]) /\ ~IsNull(rrow[c]) /\ lrow[c] = rrow[c]

C5_MinusDisjoint ==
    (op = "minus" /\ ColSet(inL) \cap ColSet(inR) = {}) =>
       (res = "Ok" /\ sm = inL)

\* two different left rows came back although the right side had a row
C5_Witness ==
    /\ op = "minus" /\ res = "Ok"
    /\ ColSet(inL) \cap ColSet(inR) = {}
    /\ NRows(inL) = 2 /\ NRows(inR) = 1
    /\ inL.rows[1] # inL.rows[2]
    /\ sm = inL

\* C6: left_join keeps every left row, with the right side's own columns
\* null where no right row matches it on the shared columns.
C6_LeftJoinKeepsLeft ==
    LET shared == ColSet(inL) \cap ColSet(inR) IN
    (op = "left_join" /\ Returned) =>
       \A i \in DOMAIN inL.rows :
          \E k \in DOMAIN sm.rows :
             /\ Restrict(sm.rows[k], ColSet(inL)) = inL.rows[i]
             /\ (~\E j \in DOMAIN inR.rows :
                     TermsMatch(inL, inR, inL.rows[i], inR.rows[j], shared))
                => \A c \in ColSet(inR) \ ColSet(inL) : sm.rows[k][c] = Null

\* C7: with no shared column name, join returns the cross product: one
\* row for each pair of a left and a right row, with the columns of both.
C7_JoinCross ==
    (op = "join" /\ Returned /\ ColSet(inL) \cap ColSet(inR) = {}) =>
       /\ NRows(sm) = NRows(inL) * NRows(inR)
       /\ ColSet(sm) = ColSet(inL) \cup ColSet(inR)
       /\ \A i \in DOMAIN inL.rows, j \in DOMAIN inR.rows :
            LET pair == [c \in ColSet(inL) \cup ColSet(inR) |->
                           IF c \in ColSet(inL) THEN inL.rows[i][c] ELSE inR.rows[j][c]]
            IN Count(sm.rows, pair) =
                  Count(inL.rows, inL.rows[i]) * Count(inR.rows, inR.rows[j])

\* two left rows were each paired with the one right row
C7_Witness ==
    /\ op = "join" /\ Returned
    /\ ColSet(inL) \cap ColSet(inR) = {}
    /\ NRows(inL) = 2 /\ NRows(inR) = 1 /\ NRows(sm) = 2
    /\ sm.rows[2]["x"] = inL.rows[2]["x"] /\ sm.rows[2]["y"] = inR.rows[1]["y"]

\* C8: the type map join and left_join return has the keys of both sides;
\* a key of the left side keeps the left side's type, a key of the right
\* side alone the right side's.
C8_JoinTypes ==
    (op \in {"join", "left_join"} /\ res = "Ok") =>
       /\ Keys(sm) = Keys(inL) \cup Keys(inR)
       /\ \A k \in Keys(inL) : sm.types[k] = inL.types[k]
       /\ \A k \in Keys(inR) \ Keys(inL) : sm.types[k] = inR.types[k]

\* the sides typed a shared column differently
C8_Witness ==
    /\ op \in {"join", "left_join"} /\ res = "Ok"
    /\ \E k \in Keys(inL) \cap Keys(inR) :
          inL.types[k] # inR.types[k] /\ sm.types[k] = inL.types[k]

\* C9: exists writes true for an outer row exactly when at least one row
\* of the probe (the distinct rows of the inner frame's exists_context
\* column) agrees with the outer row on every column the two share,
\* however often the inner frame repeats a row; the outer rows keep their
\* number, their order and their other columns.
C9_ExistsMembership ==
    (op = "exists" /\ res = "Ok") =>
       LET probe == unique_stable(select(inR, arg.inner).rows)
           shared == ColSet(inL) \cap SeqToSet(arg.inner)
       IN /\ NRows(sm) = NRows(inL)
          /\ \A i \in DOMAIN inL.rows :
               /\ sm.rows[i][arg.context] = Plain(TrueV)
                    <=> \E j \in DOMAIN probe :
                           \A c \in shared : probe[j][c] = inL.rows[i][c]
               /\ sm.rows[i][arg.context] \in {Plain(TrueV), Plain(FalseV)}
               /\ \A c \in ColSet(inL) \ shared : sm.rows[i][c] = inL.rows[i][c]

\* the inner frame held the outer row's key twice
C9_Witness ==
    /\ op = "exists" /\ res = "Ok"
    /\ NRows(inL) = 1 /\ NRows(inR) = 2
    /\ inR.rows[1]["ec"] = inL.rows[1]["ec"]
    /\ inR.rows[2]["ec"] = inL.rows[1]["ec"]
    /\ sm.rows[1][arg.context] = Plain(TrueV)

\* C10: variable and bound return Err(VariableNotFound) for a variable the
\* type map does not have, and add nothing.
C10_VariableNotFound ==
    (op \in {"variable", "bound"} /\ arg.v \notin Keys(inL)) =>
       (res = "VariableNotFound" /\ sm = inL)

\* C11: binary_expression and func_expression end in a Result for every
\* operator, function and argument count: they never panic.
C11_NoPanic ==
    op \in {"binary_expression", "func_expression"} => res # "Panic"

\* C12: an expression-compiler operation that returns Ok leaves a column
\* under its own context and a type entry for it.
C12_ResultUnderContext ==
    (/\ op \in {"named_node", "literal", "variable", "bound", "exists",
                "binary_expression", "unary_plus", "unary_minus", "not_expression",
                "if_expression", "coalesce_expression", "in_expression",
                "func_expression"}
     /\ Returned) =>
       (arg.context \in ColSet(sm) /\ arg.context \in Keys(sm))

\* C13: the type binary_expression records for a division is xsd:double
\* when the right operand's type is a literal of the integer family, and
\* the left operand's type otherwise.
C13_DivisionType ==
    (op = "binary_expression" /\ arg.f = "Divide" /\ res = "Ok") =>
       LET left_type == inL.types[arg.inner[1]]
           right_type == inL.types[arg.inner[2]]
       IN sm.types[arg.context] =
             IF /\ ~right_type.multi
                /\ right_type.ts[1] \in {XsdInt, XsdLong, XsdInteger, XsdByte, XsdShort,
                                         XsdUnsignedInt, XsdUnsignedLong,
                                         XsdUnsignedByte, XsdUnsignedShort}
             THEN Single(XsdDouble) ELSE left_type

\* a string divided by an xsd:long was recorded as a double
C13_Witness ==
    /\ op = "binary_expression" /\ arg.f = "Divide" /\ res = "Ok"
    /\ inL.types[arg.inner[1]] = Single(XsdString)
    /\ inL.types[arg.inner[2]] = Single(XsdLong)
    /\ sm.types[arg.context] = Single(XsdDouble)

\* C14: the type binary_expression records for a comparison or a logical
\* operator is xsd:boolean, whatever the operands' types.
C14_BooleanType ==
    (/\ op = "binary_expression" /\ res = "Ok"
     /\ arg.f \in {"Eq", "Lt", "LtEq", "Gt", "GtEq", "And", "Or"}) =>
       (arg.context \in Keys(sm) /\ sm.types[arg.context] = Single(XsdBoolean))

\* a conjunction of an IRI and a multi-type operand was recorded as boolean
C14_Witness ==
    /\ op = "binary_expression" /\ arg.f = "And" /\ res = "Ok"
    /\ SeqToSet(arg.inner) \subseteq Keys(inL)
    /\ inL.types[arg.inner[1]] = Single(IRI)
    /\ inL.types[arg.inner[2]].multi
    /\ sm.types[arg.context] = Single(XsdBoolean)

\* C15: in_expression gives each row false OR (left = c1) OR ... OR
\* (left = cn): true when a candidate equals the left value, else null
\* when the left value or a candidate is null, else false; false in every
\* row when there is no candidate; the type recorded is xsd:boolean.
C15_InDisjunction ==
    (op = "in_expression" /\ Returned) =>
       LET left == arg.inner[1]
           candidates == SeqToSet(Tail(arg.inner))
       IN /\ sm.types[arg.context] = Single(XsdBoolean)
          /\ NRows(sm) = NRows(inL)
          /\ \A i \in DOMAIN inL.rows :
               LET l == inL.rows[i][left]
                   hit == \E c \in candidates : ~IsNull(l) /\ inL.rows[i][c] = l
                   unknown == /\ candidates # {}
                              /\ IsNull(l) \/ \E c \in candidates : IsNull(inL.rows[i][c])
               IN sm.rows[i][arg.context] =
                     IF hit THEN Plain(TrueV) ELSE IF unknown THEN Null ELSE Plain(FalseV)

\* of two candidates the second alone equalled the left value
C15_Witness ==
    /\ op = "in_expression" /\ Returned /\ NRows(inL) = 1
    /\ Len(arg.inner) = 3
    /\ inL.rows[1][arg.inner[2]] # inL.rows[1][arg.inner[1]]
    /\ ~IsNull(inL.rows[1][arg.inner[2]])
    /\ inL.rows[1][arg.inner[3]] = inL.rows[1][arg.inner[1]]
    /\ sm.rows[1][arg.context] = Plain(TrueV)

\* C16: every MultiType in a type map union returns has at least two
\* elements, distinct and in increasing order.
C16_MultiTypesProper ==
    res = "Ok" =>
       \A k \in Keys(sm) :
          sm.types[k].multi =>
             /\ Len(sm.types[k].ts) >= 2
             /\ \A i, j \in DOMAIN sm.types[k].ts :
                  i < j => sm.types[k].ts[i] < sm.types[k].ts[j]

\* union made a MultiType of a column the two sides gave different single
\* types, or one of three base types
C16_Witness ==
    /\ op = "union" /\ Returned
    /\ \E k \in Keys(inL) \cap Keys(inR) :
         /\ inL.types[k] # inR.types[k]
         /\ sm.types[k].multi
         /\ \/ ~inL.types[k].multi /\ ~inR.types[k].multi
            \/ Len(sm.types[k].ts) = 3

\* C17: a call gives the same relation and the same auxiliary outputs
\* every time it is made with the same arguments; here for
\* prepare_group_by, whatever Uuid::new_v4 returns.
C17_Deterministic ==
    op = "prepare_group_by" =>
       \A uuid \in Uuids :
          LET p == prepare_group_by(inL, arg.inner, uuid)
          IN /\ p.sm = sm
             /\ p.by = pending.by
             /\ p.dummy_varname = pending.dummy_varname

\* C18: union implodes every column it exploded, a MultiType column of
\* one side alone included: the relation it returns has exactly one
\* column per variable of its type map and no per-type sub-column.
C18_UnionImplodesAll ==
    (op = "union" /\ Returned) =>
       /\ ColSet(sm) = Keys(sm)
       /\ Len(sm.cols) = Cardinality(ColSet(sm))

\* C19: after an expression-compiler operation with child contexts returns
\* Ok, no child context is a column or has a type entry, and every other
\* column and type entry that was there is as it was.
C19_ChildrenDropped ==
    (/\ op \in {"binary_expression", "unary_plus", "unary_minus", "not_expression",
                "if_expression", "coalesce_expression", "in_expression",
                "func_expression", "exists"}
     /\ res = "Ok") =>
       LET inner == SeqToSet(arg.inner)
           others == (ColSet(inL) \cup Keys(inL)) \ (inner \cup {arg.context})
       IN /\ inner \cap Keys(sm) = {}
          /\ \A k \in others \cap Keys(inL) : k \in Keys(sm) /\ sm.types[k] = inL.types[k]
          /\ ~sm.bad =>
                /\ inner \cap ColSet(sm) = {}
                /\ others \cap ColSet(inL) \subseteq ColSet(sm)
                /\ NRows(sm) = NRows(inL)
                /\ \A i \in DOMAIN inL.rows : \A c \in others \cap ColSet(inL) :
                     sm.rows[i][c] = inL.rows[i][c]

\* a call with two child columns that had type entries and rows returned
\* a relation with its own column
C19_Witness ==
    /\ op \in {"binary_expression", "in_expression", "func_expression"}
    /\ Returned
    /\ Len(arg.inner) = 2
    /\ SeqToSet(arg.inner) \subseteq ColSet(inL) \cap Keys(inL)
    /\ NRows(inL) > 0
    /\ arg.context \in ColSet(sm)
    /\ "x" \in ColSet(sm)

\* C20 as stated: with an empty grouping list prepare_group_by and
\* group_by aggregate the whole relation as one group, so the relation
\* returned has one row, and no synthesized column nor type entry.
C20_SingleGroup ==
    (op = "group_by" /\ Returned /\ arg.v # "" /\ arg.aggs # <<>>) =>
       /\ NRows(sm) = 1
       /\ arg.v \notin ColSet(sm) \cup Keys(sm)

\* C20: with an empty grouping list prepare_group_by adds one constant
\* column and group_by groups by it: a relation with rows is aggregated as
\* one group and a relation without rows gives no row; the column is
\* dropped and never has a type entry.  With a non-empty list
\* prepare_group_by adds nothing and group_by gives one row for each
\* distinct combination of the named variables.
C20_GroupBy ==
    /\ op = "prepare_group_by" =>
          IF arg.inner = <<>>
          THEN /\ pending.dummy_varname # "" /\ pending.by = <<pending.dummy_varname>>
               /\ sm.cols = Append(inL.cols, pending.dummy_varname)
               /\ Keys(sm) = Keys(inL)
               /\ \A i \in DOMAIN sm.rows : sm.rows[i][pending.dummy_varname] = Plain(TrueV)
          ELSE sm = inL /\ pending.by = arg.inner /\ pending.dummy_varname = ""
    /\ (op = "group_by" /\ Returned) =>
          LET by == IF arg.v = "" THEN arg.inner ELSE <<>>
              names == [i \in DOMAIN arg.aggs |-> arg.aggs[i].name]
              keys == {[c \in SeqToSet(by) |-> inL.rows[i][c]] : i \in DOMAIN inL.rows}
              members(key) == {i \in DOMAIN inL.rows : \A c \in SeqToSet(by) : inL.rows[i][c] = key[c]}
          IN /\ sm.cols = by \o names
             /\ arg.v \notin ColSet(sm) \cup Keys(sm)
             /\ arg.aggs # <<>> =>
                  /\ NRows(sm) = Cardinality(keys)
                  /\ arg.v # "" => NRows(sm) = (IF NRows(inL) = 0 THEN 0 ELSE 1)
                  /\ \A key \in keys :
                       \E i \in DOMAIN sm.rows :
                          /\ \A c \in SeqToSet(by) : sm.rows[i][c] = key[c]
                          /\ \A a \in DOMAIN arg.aggs :
                               sm.rows[i][names[a]] =
                                  Plain(IntCode(Cardinality(
                                     {j \in members(key) : ~IsNull(inL.rows[j][arg.aggs[a].of])})))

\* group_by after prepare_group_by with an empty list made one row of a
\* relation with two rows, counting both
C20_Witness ==
    /\ op = "group_by" /\ Returned /\ arg.v # "" /\ arg.aggs # <<>>
    /\ NRows(inL) = 2 /\ NRows(sm) = 1
    /\ sm.rows[1][arg.aggs[1].name] = Plain(IntCode(2))

\* C21: order_by returns the rows of its input, sorted by the sort-key
\* columns in list order, a key ascending where its flag is true and
\* descending where it is false, a null key after every value in both
\* directions; the relation returned has none of the sort-key columns.
C21_OrderBy ==
    (op = "order_by" /\ Returned) =>
       LET by == arg.inner
           asc == arg.asc
           orig(i) == inL.rows[sm.rows[i]["x"].v]
           MayPrecede(a, b) ==
              \A k \in DOMAIN by :
                 (/\ \A j \in 1..(k - 1) : a[by[j]] = b[by[j]]
                  /\ a[by[k]] # b[by[k]]) =>
                    \/ IsNull(b[by[k]])
                    \/ /\ ~IsNull(a[by[k]])
                       /\ IF asc[k] THEN a[by[k]].v < b[by[k]].v
                                    ELSE a[by[k]].v > b[by[k]].v
       IN /\ SeqToSet(by) \cap ColSet(sm) = {}
          /\ sm.cols = SelectSeq(inL.cols, LAMBDA c : c \notin SeqToSet(by))
          /\ NRows(sm) = NRows(inL)
          /\ "x" \in ColSet(inL) =>
                /\ {sm.rows[i]["x"].v : i \in DOMAIN sm.rows} = DOMAIN inL.rows
                /\ \A i \in DOMAIN sm.rows : \A c \in ColSet(sm) : sm.rows[i][c] = orig(i)[c]
                /\ \A i, j \in DOMAIN sm.rows : i < j => MayPrecede(orig(i), orig(j))

\* two rows that tie in the first key came out in the descending order of
\* the second
C21_Witness ==
    /\ op = "order_by" /\ Returned /\ NRows(inL) = 2
    /\ arg.asc = <<TRUE, FALSE>>
    /\ inL.rows[1][arg.inner[1]] = inL.rows[2][arg.inner[1]]
    /\ ~IsNull(inL.rows[1][arg.inner[2]])
    /\ inL.rows[1][arg.inner[2]].v < inL.rows[2][arg.inner[2]].v
    /\ sm.rows[1]["x"] = Plain(2)

\* C22: project returns Ok for every variable list; the relation returned
\* has exactly the requested variables as columns, in the requested
\* order; a requested variable without a type entry is no error, and the
\* other requested variables keep their types.
C22_Project ==
    op = "project" =>
       LET variables == arg.inner
       IN /\ res = "Ok"
          /\ Keys(sm) = SeqToSet(variables) \cap Keys(inL)
          /\ \A v \in Keys(sm) : sm.types[v] = inL.types[v]
          /\ ~sm.bad =>
                /\ sm.cols = variables
                /\ NRows(sm) = NRows(inL)
                /\ \A i \in DOMAIN sm.rows : \A v \in SeqToSet(variables) :
                     sm.rows[i][v] = inL.rows[i][v]

\* a requested variable had no type entry and came first in the request
\* though last in the relation; the other kept its type
C22_Witness ==
    /\ op = "project" /\ Returned
    /\ Len(arg.inner) = 2
    /\ arg.inner[1] \notin Keys(inL)
    /\ inL.cols = <<arg.inner[2], arg.inner[1]>>
    /\ sm.cols = arg.inner
    /\ Keys(sm) = {arg.inner[2]}
    /\ NRows(sm) > 0

\* C24: for a datetime t at epoch second s and an interval N > 0 the
\* floor-datetime-to-seconds-interval function gives the datetime at epoch
\* second s - (s mod N), a multiple of N seconds, not later than t and
\* less than N seconds before t; the type recorded is xsd:dateTime.
C24_FloorDatetime ==
    (/\ op = "func_expression" /\ arg.iri = "FLOOR_DATETIME_TO_SECONDS_INTERVAL"
     /\ Returned) =>
       /\ sm.types[arg.context] = Single(XsdDateTime)
       /\ \A i \in DOMAIN inL.rows :
            LET t == inL.rows[i][arg.inner[1]]
                N == inL.rows[i][arg.inner[2]]
                r == sm.rows[i][arg.context]
            IN (~IsNull(t) /\ ~IsNull(N) /\ IntOf(N.v) > 0) =>
                  /\ ~IsNull(r)
                  /\ IntOf(r.v) % (IntOf(N.v) * MsPerSecond) = 0
                  /\ IntOf(r.v) <= IntOf(t.v)
                  /\ IntOf(t.v) - IntOf(r.v) < IntOf(N.v) * MsPerSecond

====
